---- MODULE Spec2Model ----
(***************************************************************************)
(* BookPilot backend: the collaborative editing authority of a talking     *)
(* point (pilot/api/views.py collab_get_state, collab_receive_steps and    *)
(* pilot/models.py CollaborationState).                                     *)
(*                                                                         *)
(* The suggestion ledger of a talking point (content_changes_list_create,  *)
(* content_change_detail, create_suggestion, approve_suggestion and        *)
(* pilot/models.py ContentChange) is the second part of the module.        *)
(*                                                                         *)
(* The specifications share the state:                                     *)
(*   Spec      every request handler runs as one atomic step (a sequence   *)
(*             of calls);                                                  *)
(*   SpecRace  POST requests of two server workers interleave at their     *)
(*             database accesses: the handler takes no lock and opens no   *)
(*             transaction, so the get_or_create read, the version check   *)
(*             and the save are separate steps;                            *)
(*   SpecLedger   the suggestion handlers as atomic steps, for every       *)
(*             assignment of roles to the two collaborating users;         *)
(*   SpecChannels the suggestion handlers together with the POST of        *)
(*             collab_receive_steps;                                       *)
(*   SpecAccess   the talking point and comment handlers (role checks);    *)
(*   SpecCollab   invite, role update and removal of collaborators;        *)
(*   SpecPillars  the positioning pillars, the positioning brief and the   *)
(*             outline gate.                                               *)
(* A text is a sequence of characters, so that str.strip() is computed.    *)
(*                                                                         *)
(* An optional value (Python None or a value) is <<>> or <<v>>.            *)
(***************************************************************************)
EXTENDS Integers, Sequences, FiniteSets, TLC

\* ---- bound of the model ----
\* most steps a stored step log may hold
MaxLog == 2

\* ---- the small sets inputs are drawn from ----
BookOwner == "owner"
Users == {"owner", "u1", "u2"}
NoRole == "none"
Roles == {"editor", "viewer", "commenter"}
\* the talking point of the model, and an id no talking point has
TalkingPointIds == {"tp1", "tp9"}
StepValues == {"x", "y"}
ClientIDs == {"cA", "cB"}
Procs == {"w1", "w2"}

\* the "steps" payloads: no step, one step, two steps
Batches == {<<>>, <<"x">>, <<"y">>, <<"x", "x">>, <<"x", "y">>, <<"y", "x">>,
            <<"y", "y">>}
OptVersions == {<<>>} \cup {<<v>> : v \in (0 - 1)..MaxLog}
OptClientIDs == {<<>>} \cup {<<c>> : c \in ClientIDs}
SinceValues == (0 - 2)..(MaxLog + 1)

\* most ContentChange rows ever created (primary keys are never reused)
MaxChanges == 1
ChangeIds == 1..MaxChanges
\* a primary key no ContentChange row has
MissingChangeId == MaxChanges + 1
\* the step_json payloads: a JSON array of steps, or None / key absent
StepJsons == {<<>>, <<"x">>, <<"y">>}
OptStepJsons == {<<>>} \cup {<<l>> : l \in StepJsons}
\* the "status" payloads: absent, the two decisions, another string
OptStatuses == {<<>>, <<"approved">>, <<"rejected">>, <<"pending">>}
Comments == {"", "why"}
\* the value timezone.now() returns
Times == {"t1"}

VARIABLES
    collaborators,   \* BookCollaborator rows of the book: user -> role or NoRole
    talking_points,  \* ids of the TalkingPoint rows that exist
    collab_state,    \* CollaborationState row of each talking point: <<>> or <<row>>
    lastCall,        \* history: the request handled by the last atomic step
    lastResp,        \* history: its response
    accepted,        \* history: <<step, clientID>> of every step answered with success
    pendingConflict, \* history: current_version of the last 409, <<>> once a POST succeeded
    resubmit,        \* history: the last call was a POST asserting pendingConflict's version
    req,             \* SpecRace: the request each worker is handling
    changes,         \* ContentChange row of each primary key: <<>> or <<row>>
    next_change_id,  \* the primary key the next ContentChange row gets
    tp_rows,         \* text, order and content of each TalkingPoint row
    ledgerCall,      \* history: the suggestion request handled by the last step
    ledgerResp,      \* history: its response
    comments,        \* Comment row of each primary key: <<>> or <<row>>
    next_comment_id, \* the primary key the next Comment row gets
    collab_rows,     \* the BookCollaborator table: a set of rows
    next_collaborator_id, \* the primary key the next BookCollaborator row gets
    pillars,         \* the PositioningPillar table with each pillar's messages
    brief,           \* the PositioningBrief row of the book: <<>> or <<row>>
    chapters,        \* SpecOutline: the chapter titles createOutline replaces
                     \* (the rows of the document tree are chapter_rows)
    other_books,     \* number of Book rows createOutline has created
    opCall,          \* history: the request handled by the last step of
                     \* SpecAccess, SpecCollab, SpecPillars or SpecOutline
    opResp,          \* history: its response
    chapter_rows,    \* title and order of each Chapter row of the document tree
    section_rows,    \* chapter, title and order of each Section row
    tp_section,      \* the Section each TalkingPoint row belongs to
    next_tree_id,    \* the primary keys the next Chapter, Section and
                     \* TalkingPoint rows get
    opData           \* history: the body of the response, <<>> where it is not
                     \* modelled, else <<body>>

vars == <<collaborators, talking_points, collab_state, lastCall, lastResp,
          accepted, pendingConflict, resubmit, req, changes, next_change_id,
          tp_rows, ledgerCall, ledgerResp, comments, next_comment_id,
          collab_rows, next_collaborator_id, pillars, brief, chapters,
          other_books, opCall, opResp, chapter_rows, section_rows, tp_section,
          next_tree_id, opData>>

accessVars == <<comments, next_comment_id>>
collabVars == <<collab_rows, next_collaborator_id>>
pillarVars == <<pillars, brief, chapters, other_books>>
opVars == <<opCall, opResp>>
treeVars == <<chapter_rows, section_rows, tp_section, next_tree_id, opData>>
bookVars == <<accessVars, collabVars, pillarVars, opVars, treeVars>>

ledgerVars == <<changes, next_change_id, tp_rows, ledgerCall, ledgerResp>>

histVars == <<lastCall, lastResp, accepted, pendingConflict, resubmit>>

\* ---- json.dumps / json.loads of a list, as a sequence of tokens ----
RECURSIVE JoinTokens(_)
JoinTokens(l) ==
    IF l = <<>> THEN <<>>
    ELSE IF Len(l) = 1 THEN <<l[1]>>
    ELSE <<l[1], ",">> \o JoinTokens(Tail(l))

json_dumps(l) == <<"[">> \o JoinTokens(l) \o <<"]">>

JsonPunct == {"[", "]", ","}

\* [ok |-> the text is a JSON array, value |-> its list]
json_loads(t) ==
    IF Len(t) < 2 \/ t[1] # "[" \/ t[Len(t)] # "]"
    THEN [ok |-> FALSE, value |-> <<>>]
    ELSE LET inner == SubSeq(t, 2, Len(t) - 1)
             n == Len(inner)
         IN IF n = 0 THEN [ok |-> TRUE, value |-> <<>>]
            ELSE IF /\ n % 2 = 1
                    /\ \A i \in 1..n :
                          IF i % 2 = 1 THEN inner[i] \notin JsonPunct
                          ELSE inner[i] = ","
            THEN [ok |-> TRUE, value |-> [i \in 1..((n + 1) \div 2) |-> inner[2 * i - 1]]]
            ELSE [ok |-> FALSE, value |-> <<>>]

\* ---- CollaborationState (models.py) ----
DefaultRow == [version |-> 0, steps |-> <<"[", "]">>, step_client_ids |-> <<"[", "]">>]

get_steps(cs) ==
    LET r == json_loads(cs.steps) IN IF r.ok THEN r.value ELSE <<>>

get_client_ids(cs) ==
    LET r == json_loads(cs.step_client_ids) IN IF r.ok THEN r.value ELSE <<>>

set_steps(cs, steps_list) == [cs EXCEPT !.steps = json_dumps(steps_list)]

set_client_ids(cs, ids_list) == [cs EXCEPT !.step_client_ids = json_dumps(ids_list)]

\* mutant of get_or_create: the default object is returned but never inserted
get_or_create_unsaved(rows, tp) ==
    IF rows[tp] # <<>>
    THEN [obj |-> rows[tp][1], rows |-> rows]
    ELSE [obj |-> DefaultRow, rows |-> rows]

\* mutant of get_or_create: the row is created anew on every call
get_or_create_reset(rows, tp) ==
    [obj |-> DefaultRow, rows |-> [rows EXCEPT ![tp] = <<DefaultRow>>]]

\* CollaborationState.objects.get_or_create(talking_point=tp)
get_or_create(rows, tp) ==
    IF rows[tp] # <<>>
    THEN [obj |-> rows[tp][1], rows |-> rows]
    ELSE [obj |-> DefaultRow, rows |-> [rows EXCEPT ![tp] = <<DefaultRow>>]]

\* mutant of save: the UPDATE leaves the step_client_ids column out
save_without_client_ids(rows, tp, obj) ==
    [rows EXCEPT ![tp] = <<[obj EXCEPT !.step_client_ids = rows[tp][1].step_client_ids]>>]

\* collab_state.save(): one UPDATE of every column of the row
save(rows, tp, obj) == [rows EXCEPT ![tp] = <<obj>>]

\* ---- access control (views.py) ----
user_has_book_access(user) ==
    \/ user = BookOwner
    \/ collaborators[user] # NoRole

\* mutant of PySliceFrom: a start at or past the end yields the last element
PySliceFrom_clamped(l, start) ==
    LET n == Len(l)
        s == IF start < 0
             THEN (IF n + start < 0 THEN 0 ELSE n + start)
             ELSE (IF start > n THEN n ELSE start)
    IN IF s >= n /\ n > 0 THEN <<l[n]>> ELSE SubSeq(l, s + 1, n)

\* mutant of PySliceFrom: the slice starts one element late
PySliceFrom_late(l, start) ==
    LET n == Len(l)
        s == IF start < 0
             THEN (IF n + start < 0 THEN 0 ELSE n + start)
             ELSE (IF start > n THEN n ELSE start)
    IN SubSeq(l, s + 2, n)

\* ---- Python list slice l[start:] ----
PySliceFrom(l, start) ==
    LET n == Len(l)
        s == IF start < 0
             THEN (IF n + start < 0 THEN 0 ELSE n + start)
             ELSE (IF start > n THEN n ELSE start)
    IN SubSeq(l, s + 1, n)

\* ---- responses ----
Resp(status, detail) ==
    [status |-> status, detail |-> detail, success |-> FALSE, version |-> <<>>,
     current_version |-> <<>>, steps |-> <<>>, clientIDs |-> <<>>]

NoResp == Resp(0, "")
NoCall == [op |-> "none", user |-> BookOwner, tp |-> "tp1", version |-> <<>>,
           steps |-> <<>>, clientID |-> <<>>, since |-> 0]


\* ---- collab_receive_steps, POST branch after the state is loaded ----
\* mutant of version_mismatch: only a version ahead of the state is refused
version_mismatch_ahead(version, cs) == version > cs.version

\* if version != collab_state.version
version_mismatch(version, cs) == version # cs.version

\* mutant of extend_client_ids: the client id is appended once per batch
extend_client_ids_once(current_client_ids, client_id, steps) ==
    Append(current_client_ids, client_id)

\* current_client_ids.extend([client_id] * len(steps))
extend_client_ids(current_client_ids, client_id, steps) ==
    current_client_ids \o [i \in 1..Len(steps) |-> client_id]

\* mutant of conflict_response: the 409 echoes the submitted version
conflict_response_echo(version, cs) ==
    [Resp(409, "Version mismatch") EXCEPT !.current_version = <<version>>]

\* the 409 body: current_version is the version of the loaded state
conflict_response(version, cs) ==
    [Resp(409, "Version mismatch") EXCEPT !.current_version = <<cs.version>>]

\* mutant of apply_steps: the submitted lists replace the loaded ones
apply_steps_replace(cs, steps, client_id) ==
    LET current_steps == steps
        current_client_ids == extend_client_ids(<<>>, client_id, steps)
    IN [set_client_ids(set_steps(cs, current_steps), current_client_ids)
           EXCEPT !.version = Len(current_steps)]

\* set_steps, set_client_ids, version = len(current_steps)
apply_steps(cs, steps, client_id) ==
    LET current_steps == get_steps(cs) \o steps
        current_client_ids == extend_client_ids(get_client_ids(cs), client_id, steps)
    IN [set_client_ids(set_steps(cs, current_steps), current_client_ids)
           EXCEPT !.version = Len(current_steps)]

\* [save |-> the handler reaches collab_state.save(), obj |-> the object it
\*  saves, resp |-> the response], from the loaded object cs and the payload
receive_steps(cs, version, steps, client_id) ==
    IF version = <<>> \/ client_id = <<>>
    THEN [save |-> FALSE, obj |-> cs,
          resp |-> Resp(400, "version and clientID are required")]
    ELSE IF version_mismatch(version[1], cs)
    THEN [save |-> FALSE, obj |-> cs, resp |-> conflict_response(version[1], cs)]
    ELSE LET obj == apply_steps(cs, steps, client_id[1])
         IN [save |-> TRUE, obj |-> obj,
             resp |-> [Resp(200, "") EXCEPT !.success = TRUE,
                                            !.version = <<obj.version>>]]

\* ---- collab_receive_steps, GET branch after the state is loaded ----
steps_since(cs, since_version) ==
    [Resp(200, "") EXCEPT !.steps = PySliceFrom(get_steps(cs), since_version),
                          !.clientIDs = PySliceFrom(get_client_ids(cs), since_version),
                          !.version = <<cs.version>>]

\* ---- history bookkeeping of an atomic step ----
Accepted(call, resp) == call.op = "POST" /\ resp.status = 200

Record(call, resp) ==
    /\ lastCall' = call
    /\ lastResp' = resp
    /\ accepted' = IF Accepted(call, resp)
                   THEN accepted \o [i \in 1..Len(call.steps) |->
                                        <<call.steps[i], call.clientID[1]>>]
                   ELSE accepted
    /\ pendingConflict' = IF resp.status = 409 THEN resp.current_version
                          ELSE IF Accepted(call, resp) THEN <<>>
                          ELSE pendingConflict
    /\ resubmit' = (call.op = "POST" /\ pendingConflict # <<>>
                        /\ call.version = pendingConflict)

\* ---- Spec: the handlers as atomic steps ----
collab_get_state(user, tp) ==
    LET call == [NoCall EXCEPT !.op = "STATE", !.user = user, !.tp = tp]
    IN /\ IF tp \notin talking_points
          THEN /\ Record(call, Resp(404, "Talking point not found"))
               /\ UNCHANGED collab_state
          ELSE IF ~user_has_book_access(user)
          THEN /\ Record(call, Resp(404, "Not found"))
               /\ UNCHANGED collab_state
          ELSE LET g == get_or_create(collab_state, tp)
               IN /\ collab_state' = g.rows
                  /\ Record(call, [Resp(200, "") EXCEPT !.version = <<g.obj.version>>])
       /\ UNCHANGED <<collaborators, talking_points, req, ledgerVars, bookVars>>

collab_receive_steps_POST(user, tp, version, steps, client_id) ==
    LET call == [NoCall EXCEPT !.op = "POST", !.user = user, !.tp = tp,
                               !.version = version, !.steps = steps,
                               !.clientID = client_id]
    IN /\ IF tp \notin talking_points
          THEN /\ Record(call, Resp(404, "Talking point not found"))
               /\ UNCHANGED collab_state
          ELSE IF ~user_has_book_access(user)
          THEN /\ Record(call, Resp(404, "Not found"))
               /\ UNCHANGED collab_state
          ELSE LET g == get_or_create(collab_state, tp)
                   out == receive_steps(g.obj, version, steps, client_id)
               IN /\ out.save => out.obj.version <= MaxLog
                  /\ collab_state' = IF out.save THEN save(g.rows, tp, out.obj)
                                     ELSE g.rows
                  /\ Record(call, out.resp)
       /\ UNCHANGED <<collaborators, talking_points, req, ledgerVars, bookVars>>

collab_receive_steps_GET(user, tp, since) ==
    LET call == [NoCall EXCEPT !.op = "GET", !.user = user, !.tp = tp,
                               !.since = since]
    IN /\ IF tp \notin talking_points
          THEN /\ Record(call, Resp(404, "Talking point not found"))
               /\ UNCHANGED collab_state
          ELSE IF ~user_has_book_access(user)
          THEN /\ Record(call, Resp(404, "Not found"))
               /\ UNCHANGED collab_state
          ELSE LET g == get_or_create(collab_state, tp)
               IN /\ collab_state' = g.rows
                  /\ Record(call, steps_since(g.obj, since))
       /\ UNCHANGED <<collaborators, talking_points, req, ledgerVars, bookVars>>

\* a TalkingPoint row: its text, its order and its rich-text content
TalkingPointRow == [text |-> <<"i">>, order |-> 1, content |-> <<<<"p">>>>]

LedgerResp(status, detail) == [status |-> status, detail |-> detail]
NoLedgerResp == LedgerResp(0, "")
NoLedgerCall == [op |-> "none", user |-> BookOwner, tp |-> "tp1",
                 id |-> MissingChangeId, status |-> <<>>, step_json |-> <<>>,
                 comment |-> "", now |-> "t1"]

\* ---- the rest of the book: comments, collaborators, pillars, outline ----
\* most Comment rows ever created
MaxComments == 1
CommentIds == 1..MaxComments
MissingCommentId == MaxComments + 1
\* most BookCollaborator rows ever created
MaxCollaboratorRows == 4
CollaboratorIds == 1..MaxCollaboratorRows
\* the book of the model, and an id no book has
BookIds == {"b1", "b9"}
\* the positioning pillars of the model: PILLAR_SLUGS
PILLAR_SLUGS == <<"business_core", "avatar", "emotional_resonance",
                  "north_star", "pain_points", "the_shift", "the_edge",
                  "the_foundation", "the_authority">>

\* the BookCollaborator rows a role assignment stands for, with primary keys
\* in the order of invitation
RowsOf(roles) ==
    LET invited == {u \in DOMAIN roles : roles[u] # NoRole}
        pk(u) == Cardinality({v \in invited : v = "u1" \/ v = u})
    IN {[id |-> pk(u), user |-> u, role |-> roles[u], invited_by |-> BookOwner] :
            u \in invited}

OpResp(status, detail) == [status |-> status, detail |-> detail]
NoOpResp == OpResp(0, "")
NoOpCall ==
    [op |-> "none", user |-> BookOwner, book |-> "b1", tp |-> <<>>, id |-> 0,
     text |-> <<>>, order |-> <<>>, content |-> <<>>, parent |-> <<>>,
     email |-> <<>>, role |-> <<>>, score |-> 0, force_legacy |-> FALSE,
     answers |-> <<>>, before |-> <<>>, ai |-> <<>>]

\* a Chapter row, and a Section row of chapter c
ChapterRow == [title |-> <<"c">>, order |-> 1]
SectionRow(c) == [chapter |-> c, title |-> <<"s">>, order |-> 1]

InitBook ==
    /\ comments = [id \in CommentIds |-> <<>>]
    /\ next_comment_id = 1
    /\ collab_rows = RowsOf(collaborators)
    /\ next_collaborator_id = Cardinality(collab_rows) + 1
    /\ brief = <<>>
    /\ chapters = <<"ch1">>
    /\ other_books = 0
    /\ opCall = NoOpCall
    /\ opResp = NoOpResp
    /\ chapter_rows = [c \in {1} |-> ChapterRow]
    /\ section_rows = [s \in {1} |-> SectionRow(1)]
    /\ tp_section = [tp \in {"tp1"} |-> 1]
    /\ next_tree_id = [chapter |-> 2, section |-> 2, talking_point |-> 2]
    /\ opData = <<>>

IdleReq == [pc |-> "idle", first |-> TRUE, tp |-> "tp1", version |-> <<>>,
            steps |-> <<>>, clientID |-> <<>>, obj |-> DefaultRow, resp |-> NoResp]

Init ==
    /\ collaborators = [u \in Users \ {BookOwner} |->
                           IF u = "u1" THEN "editor" ELSE NoRole]
    /\ talking_points = {"tp1"}
    /\ collab_state = [tp \in talking_points |-> <<>>]
    /\ lastCall = NoCall
    /\ lastResp = NoResp
    /\ accepted = <<>>
    /\ pendingConflict = <<>>
    /\ resubmit = FALSE
    /\ req = [p \in Procs |-> IdleReq]
    /\ changes = [id \in ChangeIds |-> <<>>]
    /\ next_change_id = 1
    /\ tp_rows = [tp \in talking_points |-> TalkingPointRow]
    /\ ledgerCall = NoLedgerCall
    /\ ledgerResp = NoLedgerResp
    /\ InitBook
    /\ pillars = <<>>

GetState == \E user \in Users, tp \in TalkingPointIds : collab_get_state(user, tp)

\* the request reaches the code that reads its payload
Admitted(user, tp) == tp \in talking_points /\ user_has_book_access(user)

\* a request answered 404 is answered before its payload is read: one payload
\* stands for all of them
PostPayloads(user, tp) ==
    IF Admitted(user, tp)
    THEN OptVersions \X Batches \X OptClientIDs
    ELSE {<<<<0>>, <<"x">>, <<"cA">>>>}

SincePayloads(user, tp) == IF Admitted(user, tp) THEN SinceValues ELSE {0}

ReceiveSteps ==
    \E user \in Users, tp \in TalkingPointIds :
        \E payload \in PostPayloads(user, tp) :
            collab_receive_steps_POST(user, tp, payload[1], payload[2], payload[3])

GetStepsSince ==
    \E user \in Users, tp \in TalkingPointIds :
        \E since \in SincePayloads(user, tp) :
            collab_receive_steps_GET(user, tp, since)

Next == GetState \/ ReceiveSteps \/ GetStepsSince

Spec == Init /\ [][Next]_vars

\* ---- SpecRace: POST requests of two workers, interleaved ----
\* Worker p takes a request and runs the handler up to and including
\* get_or_create, its first access to the CollaborationState row; the object
\* it loaded is req[p].obj (lines 2760-2777)
RaceRead(p, user, tp, version, steps, client_id) ==
    /\ req[p].pc = "idle"
    /\ IF tp \notin talking_points
       THEN /\ req' = [req EXCEPT ![p] = [@ EXCEPT !.pc = "done",
                           !.resp = Resp(404, "Talking point not found")]]
            /\ UNCHANGED collab_state
       ELSE IF ~user_has_book_access(user)
       THEN /\ req' = [req EXCEPT ![p] = [@ EXCEPT !.pc = "done",
                           !.resp = Resp(404, "Not found")]]
            /\ UNCHANGED collab_state
       ELSE LET g == get_or_create(collab_state, tp)
                out == receive_steps(g.obj, version, steps, client_id)
            IN /\ out.save => out.obj.version <= MaxLog
               /\ collab_state' = g.rows
               /\ req' = [req EXCEPT ![p] = [@ EXCEPT !.pc = "check", !.tp = tp,
                              !.version = version, !.steps = steps,
                              !.clientID = client_id, !.obj = g.obj]]
    /\ UNCHANGED <<collaborators, talking_points, histVars, ledgerVars, bookVars>>

\* the validation and the version check against the loaded object (2779-2787)
RaceCheck(p) ==
    /\ req[p].pc = "check"
    /\ LET r == req[p]
           out == receive_steps(r.obj, r.version, r.steps, r.clientID)
       IN req' = [req EXCEPT ![p] =
                     IF out.save THEN [@ EXCEPT !.pc = "save"]
                     ELSE [@ EXCEPT !.pc = "done", !.resp = out.resp]]
    /\ UNCHANGED <<collaborators, talking_points, collab_state, histVars, ledgerVars, bookVars>>

\* extend the loaded lists, save() the object, answer success (2789-2804)
RaceSave(p) ==
    /\ req[p].pc = "save"
    /\ LET r == req[p]
           out == receive_steps(r.obj, r.version, r.steps, r.clientID)
       IN /\ collab_state' = save(collab_state, r.tp, out.obj)
          /\ req' = [req EXCEPT ![p] = [@ EXCEPT !.pc = "done", !.obj = out.obj,
                                                  !.resp = out.resp]]
    /\ UNCHANGED <<collaborators, talking_points, histVars, ledgerVars, bookVars>>

\* the response is sent; the worker is free for its next request
RaceReturn(p) ==
    /\ req[p].pc = "done"
    /\ req' = [req EXCEPT ![p] = [IdleReq EXCEPT !.first = FALSE]]
    /\ UNCHANGED <<collaborators, talking_points, collab_state, histVars, ledgerVars, bookVars>>

\* the client each worker serves in SpecRace
ClientOf(p) == IF p = "w1" THEN "cA" ELSE "cB"

\* the steps that client types: cA's steps are "x", cB's are "y"
StepOf(p) == IF p = "w1" THEN "x" ELSE "y"

RaceBatches(p) == {b \in Batches : \A i \in 1..Len(b) : b[i] = StepOf(p)}

RacePayloads(p, user, tp) ==
    IF Admitted(user, tp)
    THEN OptVersions \X RaceBatches(p) \X {<<>>, <<ClientOf(p)>>}
    ELSE {<<<<0>>, <<"x">>, <<ClientOf(p)>>>>}

Read ==
    \E p \in Procs, user \in Users, tp \in TalkingPointIds :
        \E payload \in RacePayloads(p, user, tp) :
            RaceRead(p, user, tp, payload[1], payload[2], payload[3])

Check == \E p \in Procs : RaceCheck(p)

Save == \E p \in Procs : RaceSave(p)

Return == \E p \in Procs : RaceReturn(p)

NextRace == Read \/ Check \/ Save \/ Return

SpecRace == Init /\ [][NextRace]_vars

\* ---- what a talking point's collaboration state reads as ----
\* the row get_or_create would load: the stored row, or the defaults when the
\* row has not been created yet
StateIn(rows, tp) == IF rows[tp] = <<>> THEN DefaultRow ELSE rows[tp][1]

IsPrefix(a, b) == Len(a) <= Len(b) /\ SubSeq(b, 1, Len(a)) = a

CountsAgree(cs) ==
    /\ cs.version = Len(get_steps(cs))
    /\ cs.version = Len(get_client_ids(cs))

\* C1: under Spec (any sequence of calls from version 0), after every call,
\* accepted or rejected, version = length of the step log = length of the
\* client-id log.
C1_VersionIsLogLength ==
    \A tp \in talking_points :
        LET cs == StateIn(collab_state, tp)
        IN /\ CountsAgree(cs)
           /\ cs.version = Len(accepted)

\* accepted and rejected calls have both happened
C1_Witness ==
    /\ lastCall.op = "POST" /\ lastResp.status = 409
    /\ StateIn(collab_state, "tp1").version = 2
    /\ accepted[1][2] # accepted[2][2]

\* a submission that got past validation: answered success or conflict
Submitted(r) == r.pc = "done" /\ r.resp.status \in {200, 409}

\* C2: under SpecRace, when the only two submissions made so far assert the
\* same base version, the version the talking point has, and carry steps,
\* exactly one is answered success and the other conflict, and the conflict
\* reports the version the accepted one produced.
C2_ExactlyOneSucceeds ==
    LET a == req["w1"]
        b == req["w2"]
    IN (/\ a.first /\ b.first
        /\ Submitted(a) /\ Submitted(b)
        /\ a.version = <<0>> /\ b.version = <<0>>
        /\ a.steps # <<>> /\ b.steps # <<>>)
       => \/ /\ a.resp.status = 200 /\ b.resp.status = 409
             /\ b.resp.current_version = a.resp.version
          \/ /\ b.resp.status = 200 /\ a.resp.status = 409
             /\ a.resp.current_version = b.resp.version

\* C3: under SpecRace the step log and the client-id log only grow at the
\* end: the logs before a step are prefixes of the logs after it.
C3_AppendOnly ==
    [][\A tp \in talking_points :
          /\ IsPrefix(get_steps(StateIn(collab_state, tp)),
                      get_steps(StateIn(collab_state', tp)))
          /\ IsPrefix(get_client_ids(StateIn(collab_state, tp)),
                      get_client_ids(StateIn(collab_state', tp)))]_vars

\* C4: under SpecRace no interleaving stores a row, or leaves a worker holding
\* an object, whose step count, client-id count and version differ.
C4_CountsNeverDiverge ==
    /\ \A tp \in talking_points :
          collab_state[tp] # <<>> => CountsAgree(collab_state[tp][1])
    /\ \A p \in Procs : CountsAgree(req[p].obj)

\* two submissions that loaded the same version have both been saved
C4_Witness ==
    /\ req["w1"].first /\ req["w2"].first
    /\ req["w1"].pc = "done" /\ req["w1"].resp.status = 200
    /\ req["w2"].pc = "done" /\ req["w2"].resp.status = 200
    /\ req["w1"].steps # <<>> /\ Len(req["w2"].steps) = 2

\* C5: under SpecRace the version starts at 0 and never decreases, and a save
\* of a non-empty batch strictly increases it.
C5_VersionMonotonic ==
    /\ \A tp \in talking_points : StateIn(collab_state, tp).version = 0
    /\ [][\A tp \in talking_points :
             /\ StateIn(collab_state', tp).version >= StateIn(collab_state, tp).version
             /\ \A p \in Procs :
                   (req[p].pc = "save" /\ req'[p].pc = "done" /\ req[p].tp = tp
                    /\ req[p].steps # <<>>)
                   => StateIn(collab_state', tp).version
                          > StateIn(collab_state, tp).version]_vars

\* a POST that reaches the version check: the talking point exists, the
\* caller has access, version and clientID are given
PostCall(call) ==
    /\ call.op = "POST" /\ Admitted(call.user, call.tp)
    /\ call.version # <<>> /\ call.clientID # <<>>

GetCall(call) == call.op = "GET" /\ Admitted(call.user, call.tp)

\* C6: under Spec a ReceiveSteps call whose asserted version differs from the
\* current version is answered 409 with the current version and applies
\* nothing: version, step log and client-id log read as before.
C6_MismatchRejected ==
    [][LET call == lastCall'
           cur == StateIn(collab_state, call.tp)
       IN (PostCall(call) /\ call.version[1] # cur.version)
          => /\ lastResp'.status = 409
             /\ lastResp'.current_version = <<cur.version>>
             /\ StateIn(collab_state', call.tp) = cur
             /\ accepted' = accepted]_vars

\* a stale submission (base 0, log at version 1) has been rejected
C6_Witness ==
    /\ lastCall.op = "POST" /\ lastCall.version = <<0>> /\ lastCall.steps # <<>>
    /\ lastResp.status = 409 /\ lastResp.current_version = <<1>>
    /\ get_steps(StateIn(collab_state, "tp1")) = <<accepted[1][1]>>

\* C7: under Spec a ReceiveSteps call whose asserted version equals the
\* current version makes the step log the old log followed by the submitted
\* steps in order, appends the client id once per step, sets version to the
\* new log length (old version + number of steps) and answers success with it.
C7_MatchAppends ==
    [][LET call == lastCall'
           cur == StateIn(collab_state, call.tp)
           new == StateIn(collab_state', call.tp)
       IN (PostCall(call) /\ call.version[1] = cur.version)
          => /\ get_steps(new) = get_steps(cur) \o call.steps
             /\ get_client_ids(new)
                   = get_client_ids(cur) \o [i \in 1..Len(call.steps) |-> call.clientID[1]]
             /\ new.version = Len(get_steps(new))
             /\ new.version = cur.version + Len(call.steps)
             /\ lastResp'.status = 200 /\ lastResp'.success
             /\ lastResp'.version = <<new.version>>]_vars

\* a second client's step has been appended to a log that held a step
C7_Witness ==
    /\ lastCall.op = "POST" /\ lastCall.version = <<1>> /\ Len(lastCall.steps) = 1
    /\ lastResp.status = 200 /\ lastResp.version = <<2>>
    /\ accepted[1][2] # lastCall.clientID[1]

\* the elements of l whose 0-based index is at least n
IndexAtLeast(l, n) ==
    LET k == IF n < 0 THEN 0 ELSE n
    IN [i \in 1..(Len(l) - k) |-> l[k + i]]

SinceAnswer(call, resp) ==
    LET cs == StateIn(collab_state, call.tp)
    IN /\ resp.status = 200
       /\ resp.steps = IndexAtLeast(get_steps(cs), call.since)
       /\ resp.clientIDs = IndexAtLeast(get_client_ids(cs), call.since)
       /\ resp.version = <<cs.version>>
       /\ call.since = 0
            => /\ Len(resp.steps) = Len(accepted)
               /\ \A i \in 1..Len(accepted) :
                     /\ resp.steps[i] = accepted[i][1]
                     /\ resp.clientIDs[i] = accepted[i][2]

C9_RetryAccepted ==
    (resubmit /\ PostCall(lastCall))
    => /\ lastResp.status = 200
       /\ lastResp.version = <<lastCall.version[1] + Len(lastCall.steps)>>
       /\ StateIn(collab_state, lastCall.tp).version
             = lastCall.version[1] + Len(lastCall.steps)

\* the scenario of the specification: A at 0 accepted to 1, B at 0 rejected
\* with current version 1, B at 1 accepted to 2; the log is A's step, B's step
C9_Witness ==
    /\ resubmit /\ PostCall(lastCall)
    /\ lastCall.version = <<1>> /\ lastCall.steps = <<"y">>
    /\ lastCall.clientID = <<"cB">>
    /\ lastResp.status = 200 /\ lastResp.version = <<2>>
    /\ accepted = << <<"x", "cA">>, <<"y", "cB">> >>

\* C10: under Spec GetStepsSince, whatever its since value, leaves version,
\* step log and client-id log as they read before and leaves a stored row
\* untouched, and a call repeated right away returns the same result.
C10_PureRead ==
    [][lastCall'.op = "GET"
       => /\ \A tp \in talking_points :
                /\ StateIn(collab_state', tp) = StateIn(collab_state, tp)
                /\ collab_state[tp] # <<>> => collab_state'[tp] = collab_state[tp]
          /\ accepted' = accepted
          /\ lastCall' = lastCall => lastResp' = lastResp]_vars

\* a GetStepsSince with a negative since has returned steps of a stored log
C10_Witness ==
    /\ GetCall(lastCall) /\ lastCall.since < 0
    /\ lastResp.status = 200 /\ lastResp.steps # <<>>
    /\ StateIn(collab_state, "tp1").version = 2

\* C11: under Spec GetStepsSince(v) with v equal to the current version, or
\* greater than the log length, is answered 200 with an empty step list, an
\* empty client-id list and the current version.
C11_SinceAtOrPastEnd ==
    LET cs == StateIn(collab_state, lastCall.tp)
    IN (/\ GetCall(lastCall)
        /\ \/ lastCall.since = cs.version
           \/ lastCall.since > Len(get_steps(cs)))
       => /\ lastResp.status = 200
          /\ lastResp.steps = <<>>
          /\ lastResp.clientIDs = <<>>
          /\ lastResp.version = <<cs.version>>

\* GetStepsSince past the end of a log of two steps has been answered
C11_Witness ==
    /\ GetCall(lastCall)
    /\ Len(get_steps(StateIn(collab_state, "tp1"))) = 2
    /\ lastCall.since > 2
    /\ lastResp.status = 200

\* a GetState that reaches get_or_create
StateCall(call) == call.op = "STATE" /\ Admitted(call.user, call.tp)

\* C12: under Spec GetState on a talking point without a CollaborationState
\* row creates the row with version 0 and empty step and client-id logs and
\* returns version 0; on a talking point that has one it returns the row's
\* version and changes nothing.
C12_GetStateCreatesOnce ==
    [][LET call == lastCall'
       IN StateCall(call)
          => /\ lastResp'.status = 200
             /\ IF collab_state[call.tp] = <<>>
                THEN /\ collab_state'[call.tp] # <<>>
                     /\ collab_state'[call.tp][1].version = 0
                     /\ get_steps(collab_state'[call.tp][1]) = <<>>
                     /\ get_client_ids(collab_state'[call.tp][1]) = <<>>
                     /\ collab_state'[call.tp][1].steps = json_dumps(<<>>)
                     /\ lastResp'.version = <<0>>
                ELSE /\ collab_state' = collab_state
                     /\ lastResp'.version = <<collab_state[call.tp][1].version>>
             /\ accepted' = accepted]_vars

\* GetState has created the row of a talking point that had none
C12_Witness ==
    /\ StateCall(lastCall)
    /\ lastResp.status = 200 /\ lastResp.version = <<0>>
    /\ collab_state["tp1"] = <<DefaultRow>>
    /\ accepted = <<>>

\* ---- the suggestion ledger: ContentChange rows ----
\* the tables a suggestion handler can reach
DB == [changes |-> changes, tp_rows |-> tp_rows, collab_state |-> collab_state]

ChangeExists(rows, id) == id \in ChangeIds /\ rows[id] # <<>>

\* Python truth value of request.data.get("step_json"): None and [] are false
py_truthy(opt) == opt # <<>> /\ opt[1] # <<>>

\* ContentChange.objects.create: status, approved_by and approved_at take
\* the model's defaults
ContentChange_create(db, id, tp, user, step_json, comment) ==
    IF id \notin ChangeIds THEN db ELSE
    [db EXCEPT !.changes[id] =
        <<[talking_point |-> tp, user |-> user, step_json |-> step_json,
           comment |-> comment, status |-> "pending",
           approved_by |-> <<>>, approved_at |-> <<>>]>>]

\* mutant of change_save: an approved change's steps are applied to the
\* talking point's content
change_save_applies_steps(db, id, change) ==
    [db EXCEPT !.changes[id] = <<change>>,
               !.tp_rows[change.talking_point].content =
                   IF change.status = "approved"
                   THEN <<@[1] \o change.step_json>> ELSE @]

\* mutant of change_save: an approved change's steps are written to the
\* talking point's CollaborationState
change_save_feeds_collab(db, id, change) ==
    [db EXCEPT !.changes[id] = <<change>>,
               !.collab_state[change.talking_point] =
                   IF change.status = "approved"
                   THEN <<[version |-> Len(change.step_json),
                           steps |-> json_dumps(change.step_json),
                           step_client_ids |->
                               json_dumps([i \in 1..Len(change.step_json) |-> "cA"])]>>
                   ELSE @]

\* change.save(): one UPDATE of the ContentChange row, of no other table
change_save(db, id, change) == [db EXCEPT !.changes[id] = <<change>>]

\* change.delete()
change_delete(db, id) == [db EXCEPT !.changes[id] = <<>>]

\* mutant of step_json_updatable: the payload of a decided change is replaced
step_json_updatable_always(change) == TRUE

\* the step_json update is for pending changes only
step_json_updatable(change) == change.status = "pending"

\* mutant of may_delete: every user with access to the book may delete
may_delete_any(change, user) == TRUE

\* the author of a change and the owner of the book may delete it
may_delete(change, user) == ~(change.user # user /\ BookOwner # user)

\* the approve / reject assignments of content_change_detail
set_status(change, new_status, user, now) ==
    IF new_status = "approved"
    THEN [change EXCEPT !.status = new_status, !.approved_by = <<user>>,
                        !.approved_at = <<now>>]
    ELSE [change EXCEPT !.status = new_status, !.approved_by = <<>>,
                        !.approved_at = <<>>]

\* POST of content_changes_list_create; the result names the tables after
\* the call, the response and whether a row was created
list_create_POST(db, id, user, tp, step_json, comment) ==
    IF tp \notin talking_points
    THEN [db |-> db, resp |-> LedgerResp(404, "Talking point not found"), created |-> FALSE]
    ELSE IF ~user_has_book_access(user)
    THEN [db |-> db, resp |-> LedgerResp(404, "Not found"), created |-> FALSE]
    ELSE IF BookOwner = user
    THEN [db |-> db, created |-> FALSE,
          resp |-> LedgerResp(400, "Book owners cannot create pending changes. Edit directly.")]
    ELSE IF collaborators[user] = NoRole \/ collaborators[user] = "viewer"
    THEN [db |-> db, created |-> FALSE,
          resp |-> LedgerResp(403, "You don't have permission to make changes")]
    ELSE IF ~py_truthy(step_json)
    THEN [db |-> db, resp |-> LedgerResp(400, "step_json is required"), created |-> FALSE]
    ELSE [db |-> ContentChange_create(db, id, tp, user, step_json[1], comment),
          resp |-> LedgerResp(201, ""), created |-> TRUE]

\* PATCH of content_change_detail
detail_PATCH(db, user, id, new_status, new_step_json, now) ==
    IF ~ChangeExists(db.changes, id)
    THEN [db |-> db, resp |-> LedgerResp(404, "Change not found")]
    ELSE IF ~user_has_book_access(user)
    THEN [db |-> db, resp |-> LedgerResp(404, "Not found")]
    ELSE IF BookOwner # user
    THEN [db |-> db, resp |-> LedgerResp(403, "Only the book owner can modify changes")]
    ELSE LET change == db.changes[id][1]
         IN IF new_step_json # <<>> /\ new_status = <<>>
            THEN IF ~step_json_updatable(change)
                 THEN [db |-> db,
                       resp |-> LedgerResp(400, "Cannot update step_json for non-pending changes")]
                 ELSE [db |-> change_save(db, id,
                                  [change EXCEPT !.step_json = new_step_json[1]]),
                       resp |-> LedgerResp(200, "")]
            ELSE IF new_status \notin {<<"approved">>, <<"rejected">>}
            THEN [db |-> db,
                  resp |-> LedgerResp(400, "status must be 'approved' or 'rejected'")]
            ELSE IF change.status = new_status[1]
            THEN [db |-> db,
                  resp |-> LedgerResp(400, IF change.status = "approved"
                                           THEN "This suggestion has already been approved"
                                           ELSE "This suggestion has already been rejected")]
            ELSE [db |-> change_save(db, id, set_status(change, new_status[1], user, now)),
                  resp |-> LedgerResp(200, "")]

\* DELETE of content_change_detail
detail_DELETE(db, user, id) ==
    IF ~ChangeExists(db.changes, id)
    THEN [db |-> db, resp |-> LedgerResp(404, "Change not found")]
    ELSE IF ~user_has_book_access(user)
    THEN [db |-> db, resp |-> LedgerResp(404, "Not found")]
    ELSE IF ~may_delete(db.changes[id][1], user)
    THEN [db |-> db, resp |-> LedgerResp(403, "You can only delete your own changes")]
    ELSE [db |-> change_delete(db, id), resp |-> LedgerResp(204, "")]

\* a suggestion handler has run: the tables and the history after it
LedgerStep(call, out) ==
    /\ changes' = out.db.changes
    /\ tp_rows' = out.db.tp_rows
    /\ collab_state' = out.db.collab_state
    /\ ledgerCall' = call
    /\ ledgerResp' = out.resp
    /\ UNCHANGED <<collaborators, talking_points, histVars, req, bookVars>>

content_changes_list_create_POST(user, tp, step_json, comment) ==
    LET call == [NoLedgerCall EXCEPT !.op = "CREATE", !.user = user, !.tp = tp,
                                     !.step_json = step_json, !.comment = comment]
        out == list_create_POST(DB, next_change_id, user, tp, step_json, comment)
    IN /\ out.created => next_change_id <= MaxChanges
       /\ LedgerStep(call, out)
       /\ next_change_id' = IF out.created THEN next_change_id + 1 ELSE next_change_id

content_change_detail_PATCH(user, id, new_status, new_step_json, now) ==
    LET call == [NoLedgerCall EXCEPT !.op = "PATCH", !.user = user, !.id = id,
                                     !.status = new_status,
                                     !.step_json = new_step_json, !.now = now]
    IN /\ LedgerStep(call, detail_PATCH(DB, user, id, new_status, new_step_json, now))
       /\ UNCHANGED next_change_id

content_change_detail_DELETE(user, id) ==
    LET call == [NoLedgerCall EXCEPT !.op = "DELETE", !.user = user, !.id = id]
    IN /\ LedgerStep(call, detail_DELETE(DB, user, id))
       /\ UNCHANGED next_change_id

\* create_suggestion: no permission class and no access check; a missing
\* "step_json" key raises KeyError, a null one or a talking_point_id of no
\* row raises IntegrityError, and the request is answered 500
create_suggestion(user, tp, step_json) ==
    LET call == [NoLedgerCall EXCEPT !.op = "create_suggestion", !.user = user,
                                     !.tp = tp, !.step_json = step_json]
        created == step_json # <<>> /\ tp \in talking_points
        out == IF created
               THEN [db |-> ContentChange_create(DB, next_change_id, tp, user,
                                                 step_json[1], ""),
                     resp |-> LedgerResp(201, "")]
               ELSE [db |-> DB, resp |-> LedgerResp(500, "")]
    IN /\ created => next_change_id <= MaxChanges
       /\ LedgerStep(call, out)
       /\ next_change_id' = IF created THEN next_change_id + 1 ELSE next_change_id

\* approve_suggestion: no permission class and no access check
approve_suggestion(user, pk) ==
    LET call == [NoLedgerCall EXCEPT !.op = "approve_suggestion", !.user = user,
                                     !.id = pk]
        out == IF ~ChangeExists(changes, pk)
               THEN [db |-> DB, resp |-> LedgerResp(404, "")]
               ELSE [db |-> change_save(DB, pk, [changes[pk][1] EXCEPT
                                                    !.status = "approved"]),
                     resp |-> LedgerResp(200, "")]
    IN /\ LedgerStep(call, out)
       /\ UNCHANGED next_change_id

\* ---- SpecLedger: the suggestion handlers as atomic steps ----
\* The book has been shared: each of the two other users holds one of the
\* roles or none.  The handlers treat the two alike, so of two assignments
\* that differ by exchanging them one is taken.
RoleOrder == <<"editor", "commenter", "viewer", NoRole>>
RoleRank(role) == CHOOSE i \in 1..Len(RoleOrder) : RoleOrder[i] = role
RoleMaps == {m \in [Users \ {BookOwner} -> Roles \cup {NoRole}] :
                RoleRank(m["u1"]) <= RoleRank(m["u2"])}

\* the tables and histories of a book with one talking point
InitTables ==
    /\ talking_points = {"tp1"}
    /\ collab_state = [tp \in talking_points |-> <<>>]
    /\ lastCall = NoCall
    /\ lastResp = NoResp
    /\ accepted = <<>>
    /\ pendingConflict = <<>>
    /\ resubmit = FALSE
    /\ req = [p \in Procs |-> IdleReq]
    /\ changes = [id \in ChangeIds |-> <<>>]
    /\ next_change_id = 1
    /\ tp_rows = [tp \in talking_points |-> TalkingPointRow]
    /\ ledgerCall = NoLedgerCall
    /\ ledgerResp = NoLedgerResp
    /\ InitBook

InitLedger ==
    /\ collaborators \in RoleMaps
    /\ InitTables
    /\ pillars = <<>>

\* the create request reaches the code that reads its payload
MayPropose(user, tp) ==
    /\ Admitted(user, tp)
    /\ BookOwner # user
    /\ ~(collaborators[user] = NoRole \/ collaborators[user] = "viewer")

\* a request refused before its payload is read: one payload stands for all
CreatePayloads(user, tp) ==
    IF MayPropose(user, tp)
    THEN (OptStepJsons \X {""}) \cup ({<<<<"x">>>>} \X Comments)
    ELSE {<<<<<<"x">>>>, "">>}

PatchPayloads(user, id) ==
    IF ChangeExists(changes, id) /\ BookOwner = user
    THEN OptStatuses \X OptStepJsons \X Times
    ELSE {<<<<"approved">>, <<>>, "t1">>}

CreateChange ==
    \E user \in Users, tp \in TalkingPointIds :
        \E payload \in CreatePayloads(user, tp) :
            content_changes_list_create_POST(user, tp, payload[1], payload[2])

PatchChange ==
    \E user \in Users, id \in ChangeIds \cup {MissingChangeId} :
        \E payload \in PatchPayloads(user, id) :
            content_change_detail_PATCH(user, id, payload[1], payload[2], payload[3])

DeleteChange ==
    \E user \in Users, id \in ChangeIds \cup {MissingChangeId} :
        content_change_detail_DELETE(user, id)

CreateSuggestion ==
    \E user \in Users, tp \in TalkingPointIds, step_json \in OptStepJsons :
        create_suggestion(user, tp, step_json)

ApproveSuggestion ==
    \E user \in Users, pk \in ChangeIds \cup {MissingChangeId} :
        approve_suggestion(user, pk)

NextLedger ==
    CreateChange \/ PatchChange \/ DeleteChange \/ CreateSuggestion
        \/ ApproveSuggestion

SpecLedger == InitLedger /\ [][NextLedger]_vars

\* ---- SpecChannels: the suggestion handlers and the step channel ----
\* POST requests to collab_receive_steps that assert each version
ChannelPayloads == {<<v>> : v \in 0..MaxLog} \X {<<"x">>} \X {<<"cA">>}

ChannelSteps ==
    \E user \in Users, payload \in ChannelPayloads :
        collab_receive_steps_POST(user, "tp1", payload[1], payload[2], payload[3])

NextChannels == NextLedger \/ ChannelSteps

SpecChannels == Init /\ [][NextChannels]_vars

\* ---- claims about the suggestion ledger ----
\* the request asks for approval
ApproveRequest(call) ==
    \/ call.op = "PATCH" /\ call.status = <<"approved">>
    \/ call.op = "approve_suggestion"

\* the request asks for a decision, approved or rejected
DecisionRequest(call) ==
    \/ call.op = "PATCH" /\ call.status \in {<<"approved">>, <<"rejected">>}
    \/ call.op = "approve_suggestion"

\* the status the request asks for
RequestedStatus(call) ==
    IF call.op = "approve_suggestion" THEN "approved" ELSE call.status[1]

\* the request asks for a new suggestion
CreateRequest(call) == call.op \in {"CREATE", "create_suggestion"}

\* the request asks to replace the step_json and nothing else
StepJsonRequest(call) ==
    call.op = "PATCH" /\ call.step_json # <<>> /\ call.status = <<>>

Refused(resp) == resp.status >= 400

LedgerUnchanged ==
    /\ changes' = changes
    /\ next_change_id' = next_change_id

\* C13: under SpecLedger a request to give a suggestion the status it already
\* has (approved to approved, rejected to rejected) is answered with an error
\* and leaves every ContentChange row as it was.
C13_SameStatusRejected ==
    [][LET call == ledgerCall'
       IN (/\ DecisionRequest(call)
           /\ ChangeExists(changes, call.id)
           /\ changes[call.id][1].status = RequestedStatus(call))
          => /\ Refused(ledgerResp')
             /\ LedgerUnchanged]_vars

\* the columns of a change other than status, approved_by and approved_at
Payload(row) == [talking_point |-> row.talking_point, user |-> row.user,
                 step_json |-> row.step_json, comment |-> row.comment]

\* C14: under SpecLedger no approval request changes the talking points (text,
\* order, content); it creates and deletes no ContentChange row and changes
\* at most the status, approved_by and approved_at of one.
C14_ApprovalTouchesStatusOnly ==
    [][ApproveRequest(ledgerCall')
       => /\ tp_rows' = tp_rows
          /\ talking_points' = talking_points
          /\ next_change_id' = next_change_id
          /\ \A id \in ChangeIds :
                IF changes[id] = <<>> THEN changes'[id] = <<>>
                ELSE /\ changes'[id] # <<>>
                     /\ Payload(changes'[id][1]) = Payload(changes[id][1])
                     /\ id # ledgerCall'.id => changes'[id] = changes[id]]_vars

\* an approval of a suggestion that carries steps has been accepted
C14_Witness ==
    /\ ApproveRequest(ledgerCall)
    /\ ledgerResp.status = 200
    /\ ChangeExists(changes, ledgerCall.id)
    /\ changes[ledgerCall.id][1].status = "approved"
    /\ changes[ledgerCall.id][1].step_json # <<>>
    /\ tp_rows["tp1"] = TalkingPointRow

\* C15: under SpecLedger a create request by the book owner or by a
\* collaborator with the viewer role is refused and creates no ContentChange.
C15_OwnerAndViewerCannotCreate ==
    [][LET call == ledgerCall'
       IN (/\ CreateRequest(call)
           /\ \/ call.user = BookOwner
              \/ collaborators[call.user] = "viewer")
          => /\ Refused(ledgerResp')
             /\ LedgerUnchanged]_vars

\* C16: under SpecLedger a create request sent to content_changes_list_create
\* is accepted only from a collaborator, not the owner, whose role is editor
\* (a commenter is refused); an accepted one adds one pending row with a
\* non-empty step list, a refused one adds none.
C16_OnlyEditorsCreate ==
    [][LET call == ledgerCall'
       IN call.op = "CREATE"
          => IF Refused(ledgerResp')
             THEN LedgerUnchanged
             ELSE /\ call.user # BookOwner
                  /\ collaborators[call.user] = "editor"
                  /\ changes[next_change_id] = <<>>
                  /\ changes'[next_change_id] # <<>>
                  /\ changes'[next_change_id][1].step_json # <<>>
                  /\ changes'[next_change_id][1].status = "pending"]_vars

\* C17: under SpecLedger a decision request (approve or reject) is accepted
\* only from the book owner, and refused ones change nothing; an accepted
\* approval leaves status approved with approved_by the caller and approved_at
\* set, an accepted rejection leaves status rejected with both cleared.
C17_OwnerDecides ==
    [][LET call == ledgerCall'
       IN DecisionRequest(call)
          => IF Refused(ledgerResp')
             THEN LedgerUnchanged
             ELSE /\ call.user = BookOwner
                  /\ changes'[call.id] # <<>>
                  /\ LET row == changes'[call.id][1]
                     IN /\ row.status = RequestedStatus(call)
                        /\ IF row.status = "approved"
                           THEN /\ row.approved_by = <<call.user>>
                                /\ row.approved_at # <<>>
                           ELSE /\ row.approved_by = <<>>
                                /\ row.approved_at = <<>>]_vars

\* C18: under SpecLedger a suggestion that is not pending never becomes
\* pending again and keeps its step_json in every step; a request to replace
\* the step_json of an approved or rejected suggestion is refused and changes
\* nothing; the owner's request on a pending suggestion is accepted, stores
\* the payload as sent and leaves the status pending.
C18_StepJsonFrozenOncePending ==
    [][/\ \A id \in ChangeIds :
            (/\ changes[id] # <<>> /\ changes'[id] # <<>>
             /\ changes[id][1].status # "pending")
            => /\ changes'[id][1].step_json = changes[id][1].step_json
               /\ changes'[id][1].status # "pending"
       /\ LET call == ledgerCall'
          IN (StepJsonRequest(call) /\ ChangeExists(changes, call.id))
             => IF changes[call.id][1].status # "pending"
                THEN Refused(ledgerResp') /\ LedgerUnchanged
                ELSE IF call.user = BookOwner
                THEN /\ ledgerResp'.status = 200
                     /\ changes' = [changes EXCEPT ![call.id] =
                            <<[changes[call.id][1] EXCEPT
                                  !.step_json = call.step_json[1]]>>]
                ELSE Refused(ledgerResp') /\ LedgerUnchanged]_vars

\* a request to replace the step_json of an approved suggestion was refused
C18_Witness ==
    /\ StepJsonRequest(ledgerCall)
    /\ ledgerResp = LedgerResp(400, "Cannot update step_json for non-pending changes")
    /\ ChangeExists(changes, ledgerCall.id)
    /\ changes[ledgerCall.id][1].status = "approved"
    /\ changes[ledgerCall.id][1].step_json # ledgerCall.step_json[1]

\* C19: under SpecLedger a ContentChange row disappears only by a delete
\* request of its author or of the book owner; a delete request of any other
\* user is refused and leaves every row as it was.
C19_AuthorOrOwnerDeletes ==
    [][LET call == ledgerCall'
       IN /\ \A id \in ChangeIds :
               (changes[id] # <<>> /\ changes'[id] = <<>>)
               => /\ call.op = "DELETE" /\ call.id = id
                  /\ call.user \in {changes[id][1].user, BookOwner}
                  /\ ledgerResp'.status = 204
          /\ (/\ call.op = "DELETE"
              /\ ChangeExists(changes, call.id)
              /\ call.user \notin {changes[call.id][1].user, BookOwner})
             => Refused(ledgerResp') /\ LedgerUnchanged]_vars

\* a collaborator with access was refused the delete of another's suggestion
C19_Witness ==
    /\ ledgerCall.op = "DELETE"
    /\ ledgerResp = LedgerResp(403, "You can only delete your own changes")
    /\ ChangeExists(changes, ledgerCall.id)
    /\ changes[ledgerCall.id][1].user # ledgerCall.user

\* version, step log and client-id log of every talking point
Logs(rows) ==
    [tp \in talking_points |->
        LET cs == StateIn(rows, tp)
        IN <<cs.version, get_steps(cs), get_client_ids(cs)>>]

\* C20: under SpecChannels a step of a suggestion handler changes no
\* CollaborationState row; a step of ReceiveSteps creates and changes no
\* ContentChange; version, step log and client-id log change only in a step
\* of ReceiveSteps that was answered with success.
C20_ChannelsIndependent ==
    [][/\ (<<changes, next_change_id, ledgerCall, ledgerResp>>'
              # <<changes, next_change_id, ledgerCall, ledgerResp>>)
          => collab_state' = collab_state
       /\ (<<collab_state, lastCall, lastResp>>' # <<collab_state, lastCall, lastResp>>)
          => /\ LedgerUnchanged
             /\ tp_rows' = tp_rows
       /\ Logs(collab_state') # Logs(collab_state)
          => /\ PostCall(lastCall')
             /\ lastResp'.status = 200
             /\ get_steps(StateIn(collab_state', lastCall'.tp))
                    = get_steps(StateIn(collab_state, lastCall'.tp)) \o lastCall'.steps
             /\ LedgerUnchanged]_vars

\* both channels have acted: a suggestion carrying a step is approved and the
\* step log holds an accepted step
C20_Witness ==
    /\ ChangeExists(changes, 1)
    /\ changes[1][1].status = "approved"
    /\ changes[1][1].step_json = <<"y">>
    /\ ledgerResp.status = 200
    /\ get_steps(StateIn(collab_state, "tp1")) = <<"x">>
    /\ lastResp.status = 200

\* ---- talking points and comments: the role checks ----
\* str.strip() of a text
RECURSIVE py_lstrip(_)
py_lstrip(t) == IF t # <<>> /\ Head(t) = " " THEN py_lstrip(Tail(t)) ELSE t

RECURSIVE py_rstrip(_)
py_rstrip(t) ==
    IF t # <<>> /\ t[Len(t)] = " " THEN py_rstrip(SubSeq(t, 1, Len(t) - 1)) ELSE t

py_strip(t) == py_rstrip(py_lstrip(t))

\* the role of the user's BookCollaborator row, NoRole without a row
role_of(user) == IF user = BookOwner THEN NoRole ELSE collaborators[user]

user_can_edit_book(user) ==
    \/ BookOwner = user
    \/ role_of(user) = "editor"

\* mutant of user_can_comment_book: every user with access may comment
user_can_comment_book_any(user) == user_has_book_access(user)

user_can_comment_book(user) ==
    \/ BookOwner = user
    \/ role_of(user) \in {"editor", "commenter"}

\* the payloads: a text absent (None), empty, blank, or with a word
OptTexts == {<<>>, <<<<>>>>, <<<<" ">>>>, <<<<" ", "n">>>>}
OptOrders == {<<>>, <<2>>}
OptTalkingPointIds == {<<>>} \cup {<<tp>> : tp \in TalkingPointIds}

\* the assignments of update_talking_point
updated_talking_point(row, text, order, content) ==
    [text |-> IF text # <<>>
              THEN (IF py_strip(text[1]) # <<>> THEN py_strip(text[1]) ELSE row.text)
              ELSE row.text,
     order |-> IF order # <<>> THEN order[1] ELSE row.order,
     content |-> IF content # <<>>
                 THEN (IF content[1] # <<>> THEN <<py_strip(content[1])>> ELSE <<>>)
                 ELSE row.content]

\* _serialized_book: None (<<>>) unless the book is the user's own, else the
\* book with its chapters, their sections and their talking points
_serialized_book(user, ch, se, parent, rows) ==
    IF BookOwner # user THEN <<>>
    ELSE <<[chapters |-> ch, sections |-> se,
            talking_points |-> [tp \in DOMAIN rows |->
                                   [section |-> parent[tp], text |-> rows[tp].text,
                                    order |-> rows[tp].order,
                                    content |-> rows[tp].content]]]>>

\* a handler of SpecAccess has answered with the body data
AccessStepWith(call, resp, data) ==
    /\ opCall' = call
    /\ opResp' = resp
    /\ opData' = data
    /\ UNCHANGED <<collaborators, histVars, req, next_change_id, ledgerCall,
                   ledgerResp, collabVars, pillarVars, chapter_rows, section_rows,
                   next_tree_id>>

\* a handler of SpecAccess has answered; the body is not modelled
AccessStep(call, resp) == AccessStepWith(call, resp, <<>>)

TalkingPointsUnchanged ==
    UNCHANGED <<talking_points, tp_rows, collab_state, changes, tp_section>>

update_talking_point(user, tp, text, order, content) ==
    LET call == [NoOpCall EXCEPT !.op = "update_talking_point", !.user = user,
                                 !.tp = <<tp>>, !.text = text, !.order = order,
                                 !.content = content]
    IN /\ IF tp \notin talking_points
          THEN /\ AccessStep(call, OpResp(404, "Talking point not found"))
               /\ UNCHANGED tp_rows
          ELSE IF ~user_can_edit_book(user)
          THEN /\ AccessStep(call, OpResp(403, "Only editors can update talking points"))
               /\ UNCHANGED tp_rows
          ELSE /\ tp_rows' = [tp_rows EXCEPT ![tp] =
                                 updated_talking_point(@, text, order, content)]
               /\ AccessStepWith(call, OpResp(200, ""),
                      <<_serialized_book(user, chapter_rows, section_rows,
                                         tp_section, tp_rows')>>)
       /\ UNCHANGED <<talking_points, collab_state, changes, accessVars, tp_section>>

\* tp.delete(): the rows that reference the talking point go with it
delete_talking_point(user, tp) ==
    LET call == [NoOpCall EXCEPT !.op = "delete_talking_point", !.user = user,
                                 !.tp = <<tp>>]
    IN IF tp \notin talking_points
       THEN /\ AccessStep(call, OpResp(404, "Talking point not found"))
            /\ TalkingPointsUnchanged
            /\ UNCHANGED accessVars
       ELSE IF ~user_has_book_access(user)
       THEN /\ AccessStep(call,
                  OpResp(403, "You do not have permission to delete this talking point"))
            /\ TalkingPointsUnchanged
            /\ UNCHANGED accessVars
       ELSE /\ talking_points' = talking_points \ {tp}
            /\ tp_rows' = [t \in talking_points \ {tp} |-> tp_rows[t]]
            /\ collab_state' = [t \in talking_points \ {tp} |-> collab_state[t]]
            /\ changes' = [id \in ChangeIds |->
                              IF changes[id] # <<>> /\ changes[id][1].talking_point = tp
                              THEN <<>> ELSE changes[id]]
            /\ comments' = [id \in CommentIds |->
                               IF comments[id] # <<>> /\ comments[id][1].talking_point = tp
                               THEN <<>> ELSE comments[id]]
            /\ tp_section' = [t \in talking_points \ {tp} |-> tp_section[t]]
            /\ UNCHANGED next_comment_id
            /\ AccessStepWith(call, OpResp(200, ""),
                   <<_serialized_book(user, chapter_rows, section_rows,
                                      tp_section', tp_rows')>>)

CommentExists(id) == id \in CommentIds /\ comments[id] # <<>>

\* POST of comments_list_create; the serializer trims the text, refuses a
\* missing or blank one, and does not read "parent" (a read-only field)
comments_list_create_POST(user, tp, text, parent) ==
    LET call == [NoOpCall EXCEPT !.op = "comments_list_create", !.user = user,
                                 !.tp = tp, !.text = text, !.parent = parent]
        refuse(status, detail) ==
            /\ AccessStep(call, OpResp(status, detail))
            /\ UNCHANGED accessVars
        valid == text # <<>> /\ py_strip(text[1]) # <<>>
    IN /\ IF tp = <<>>
          THEN refuse(400, "talking_point_id is required")
          ELSE IF tp[1] \notin talking_points
          THEN refuse(404, "Talking point not found")
          ELSE IF ~user_has_book_access(user)
          THEN refuse(403, "You don't have access to this book")
          ELSE IF ~user_can_comment_book(user)
          THEN refuse(403, "Viewers cannot add comments")
          ELSE IF parent # <<>>
                  /\ ~(CommentExists(parent[1])
                       /\ comments[parent[1]][1].talking_point = tp[1])
          THEN refuse(404, "Parent comment not found")
          ELSE IF ~valid
          THEN refuse(400, "text: This field is required.")
          ELSE /\ next_comment_id <= MaxComments
               /\ comments' = [comments EXCEPT ![next_comment_id] =
                      <<[talking_point |-> tp[1], user |-> user,
                         text |-> py_strip(text[1]),
                         comment_type |-> IF user_has_book_access(user)
                                             /\ BookOwner # user
                                             /\ role_of(user) # NoRole
                                          THEN "collaborator" ELSE "user",
                         parent |-> <<>>]>>]
               /\ next_comment_id' = next_comment_id + 1
               /\ AccessStep(call, OpResp(201, ""))
       /\ TalkingPointsUnchanged

\* the checks comment_detail makes before it reads the method's payload
comment_detail_refusal(user, id) ==
    IF ~CommentExists(id) THEN OpResp(404, "Comment not found")
    ELSE IF ~user_has_book_access(user)
    THEN OpResp(403, "You don't have access to this book")
    ELSE IF comments[id][1].user # user /\ BookOwner # user
    THEN OpResp(403, "You can only modify your own comments")
    ELSE NoOpResp

comment_detail_PUT(user, id, text) ==
    LET call == [NoOpCall EXCEPT !.op = "comment_detail_PUT", !.user = user,
                                 !.id = id, !.text = text]
        refusal == comment_detail_refusal(user, id)
    IN /\ IF refusal # NoOpResp
          THEN /\ AccessStep(call, refusal)
               /\ UNCHANGED comments
          ELSE IF text # <<>> /\ py_strip(text[1]) = <<>>
          THEN /\ AccessStep(call, OpResp(400, "text: This field may not be blank."))
               /\ UNCHANGED comments
          ELSE /\ comments' = [comments EXCEPT ![id] =
                      <<[@[1] EXCEPT !.text = IF text = <<>> THEN @
                                              ELSE py_strip(text[1])]>>]
               /\ AccessStep(call, OpResp(200, ""))
       /\ UNCHANGED next_comment_id
       /\ TalkingPointsUnchanged

comment_detail_DELETE(user, id) ==
    LET call == [NoOpCall EXCEPT !.op = "comment_detail_DELETE", !.user = user,
                                 !.id = id]
        refusal == comment_detail_refusal(user, id)
    IN /\ IF refusal # NoOpResp
          THEN /\ AccessStep(call, refusal)
               /\ UNCHANGED comments
          ELSE /\ comments' = [comments EXCEPT ![id] = <<>>]
               /\ AccessStep(call, OpResp(204, ""))
       /\ UNCHANGED next_comment_id
       /\ TalkingPointsUnchanged

\* ---- SpecAccess ----
UpdatePayloads(user, tp) ==
    IF tp \in talking_points /\ user_can_edit_book(user)
    THEN OptTexts \X OptOrders \X OptTexts
    ELSE {<<<<<<" ", "n">>>>, <<>>, <<>>>>}

CommentPayloads(user, tp) ==
    IF tp # <<>> /\ tp[1] \in talking_points /\ user_has_book_access(user)
       /\ user_can_comment_book(user)
    THEN OptTexts \X {<<>>, <<1>>, <<MissingCommentId>>}
    ELSE {<<<<<<" ", "n">>>>, <<>>>>}

UpdateTalkingPoint ==
    \E user \in Users, tp \in TalkingPointIds :
        \E payload \in UpdatePayloads(user, tp) :
            update_talking_point(user, tp, payload[1], payload[2], payload[3])

DeleteTalkingPoint ==
    \E user \in Users, tp \in TalkingPointIds : delete_talking_point(user, tp)

CreateComment ==
    \E user \in Users, tp \in OptTalkingPointIds :
        \E payload \in CommentPayloads(user, tp) :
            comments_list_create_POST(user, tp, payload[1], payload[2])

UpdateComment ==
    \E user \in Users, id \in CommentIds \cup {MissingCommentId} :
        \E text \in (IF comment_detail_refusal(user, id) = NoOpResp
                     THEN OptTexts ELSE {<<<<" ", "n">>>>}) :
            comment_detail_PUT(user, id, text)

DeleteComment ==
    \E user \in Users, id \in CommentIds \cup {MissingCommentId} :
        comment_detail_DELETE(user, id)

NextAccess ==
    UpdateTalkingPoint \/ DeleteTalkingPoint \/ CreateComment \/ UpdateComment
        \/ DeleteComment

SpecAccess == InitLedger /\ [][NextAccess]_vars

\* ---- collaborators: invite, role update, removal ----
\* the row .first() yields under the ordering -created_at
first_row(rows) == CHOOSE row \in rows : \A other \in rows : other.id <= row.id

\* the roles the role checks read, from the rows
RolesOf(rows) ==
    [u \in Users \ {BookOwner} |->
        IF \E row \in rows : row.user = u
        THEN first_row({row \in rows : row.user = u}).role
        ELSE NoRole]

\* User.objects.get(email=email); an address is written as its user's name
UserByEmail(email) ==
    IF Len(email) = 1 /\ email[1] \in Users THEN <<email[1]>> ELSE <<>>

Emails == {<<>>, <<" ">>, <<" ", "u1">>, <<"u2">>, <<"owner">>, <<"nobody">>}
OptRoles == {<<>>} \cup {<<role>> : role \in Roles \cup {"admin"}}

\* mutant of collaborator_get_or_create: a row is created whether or not the
\* user has one
collaborator_always_create(rows, id, user, role, inviter) ==
    [rows |-> rows \cup {[id |-> id, user |-> user, role |-> role,
                          invited_by |-> inviter]},
     created |-> TRUE]

\* BookCollaborator.objects.get_or_create(book, user, defaults) and the
\* update of the role of a row that was there
collaborator_get_or_create(rows, id, user, role, inviter) ==
    IF \E row \in rows : row.user = user
    THEN [rows |-> {IF row.user = user THEN [row EXCEPT !.role = role] ELSE row :
                       row \in rows},
          created |-> FALSE]
    ELSE [rows |-> rows \cup {[id |-> id, user |-> user, role |-> role,
                               invited_by |-> inviter]},
          created |-> TRUE]

\* a handler of SpecCollab has answered and left the rows at "rows"
CollabStep(call, resp, rows, next_id) ==
    /\ opCall' = call
    /\ opResp' = resp
    /\ collab_rows' = rows
    /\ next_collaborator_id' = next_id
    /\ collaborators' = RolesOf(rows)
    /\ UNCHANGED <<histVars, req, talking_points, collab_state, ledgerVars,
                   accessVars, pillarVars, treeVars>>

CollabRefused(call, resp) == CollabStep(call, resp, collab_rows, next_collaborator_id)

book_collaborators_POST(user, book, email, role) ==
    LET call == [NoOpCall EXCEPT !.op = "book_collaborators", !.user = user,
                                 !.book = book, !.email = email, !.role = role]
        address == py_strip(email)
        new_role == IF role = <<>> THEN "commenter" ELSE role[1]
        invited == UserByEmail(address)
        got == collaborator_get_or_create(collab_rows, next_collaborator_id,
                                          invited[1], new_role, user)
    IN IF book # "b1" THEN CollabRefused(call, OpResp(404, "Book not found"))
       ELSE IF BookOwner # user
       THEN CollabRefused(call, OpResp(403, "Only the book owner can manage collaborators"))
       ELSE IF address = <<>>
       THEN CollabRefused(call, OpResp(400, "email is required"))
       ELSE IF new_role \notin Roles
       THEN CollabRefused(call,
                OpResp(400, "role must be one of: editor, viewer, commenter"))
       ELSE IF invited = <<>>
       THEN CollabRefused(call, OpResp(404, "User not found"))
       ELSE IF invited[1] = BookOwner
       THEN CollabRefused(call,
                OpResp(400, "Cannot invite the book owner as a collaborator"))
       ELSE /\ got.created => next_collaborator_id <= MaxCollaboratorRows
            /\ CollabStep(call, OpResp(IF got.created THEN 201 ELSE 200, ""), got.rows,
                          IF got.created THEN next_collaborator_id + 1
                          ELSE next_collaborator_id)

\* the checks update_collaborator_role and remove_collaborator share
collaborator_refusal(user, book, id, detail) ==
    IF book # "b1" THEN OpResp(404, "Book not found")
    ELSE IF BookOwner # user THEN OpResp(403, detail)
    ELSE IF ~\E row \in collab_rows : row.id = id
    THEN OpResp(404, "Collaborator not found")
    ELSE NoOpResp

update_collaborator_role(user, book, id, role) ==
    LET call == [NoOpCall EXCEPT !.op = "update_collaborator_role", !.user = user,
                                 !.book = book, !.id = id, !.role = role]
        refusal == collaborator_refusal(user, book, id,
                       "Only the book owner can update collaborator roles")
    IN IF refusal # NoOpResp THEN CollabRefused(call, refusal)
       ELSE IF role = <<>> \/ role[1] \notin Roles
       THEN CollabRefused(call,
                OpResp(400, "role must be one of: editor, viewer, commenter"))
       ELSE CollabStep(call, OpResp(200, ""),
                       {IF row.id = id THEN [row EXCEPT !.role = role[1]] ELSE row :
                           row \in collab_rows},
                       next_collaborator_id)

remove_collaborator(user, book, id) ==
    LET call == [NoOpCall EXCEPT !.op = "remove_collaborator", !.user = user,
                                 !.book = book, !.id = id]
        refusal == collaborator_refusal(user, book, id,
                       "Only the book owner can remove collaborators")
    IN IF refusal # NoOpResp THEN CollabRefused(call, refusal)
       ELSE CollabStep(call, OpResp(204, ""), {row \in collab_rows : row.id # id},
                       next_collaborator_id)

\* ---- SpecCollab ----
InviteCollaborator ==
    \E user \in Users, book \in BookIds :
        \E email \in (IF book = "b1" /\ user = BookOwner THEN Emails
                      ELSE {<<"u2">>}) :
            \E role \in (IF book = "b1" /\ user = BookOwner /\ py_strip(email) # <<>>
                         THEN OptRoles ELSE {<<"viewer">>}) :
                book_collaborators_POST(user, book, email, role)

UpdateCollaboratorRole ==
    \E user \in Users, book \in BookIds, id \in CollaboratorIds :
        \E role \in (IF collaborator_refusal(user, book, id, "") = NoOpResp
                     THEN OptRoles ELSE {<<"viewer">>}) :
            update_collaborator_role(user, book, id, role)

RemoveCollaborator ==
    \E user \in Users, book \in BookIds, id \in CollaboratorIds :
        remove_collaborator(user, book, id)

NextCollab == InviteCollaborator \/ UpdateCollaboratorRole \/ RemoveCollaborator

SpecCollab == InitLedger /\ [][NextCollab]_vars

\* ---- positioning pillars ----
MaxUserMessages == 2
\* the orders of the pillars the requests of SpecPillars name: chat and manual
\* completion up to MaxChatPillar, reset up to MaxResetPillar
MaxChatPillar == 1
MaxResetPillar == 2
\* the number of last pillars the requests of SpecOutline name
MaxOutlinePillars == 1
MaxOtherBooks == 1
\* the pillars a chat request to a pillar that is not ACTIVE names
MaxIdleChatPillar == 2
NumPillars == Len(PILLAR_SLUGS)
MissingPillarId == NumPillars + 1

\* the row initialize_for_book creates for the i-th slug
NewPillar(i) ==
    [slug |-> PILLAR_SLUGS[i], order |-> i,
     status |-> IF i = 1 THEN "ACTIVE" ELSE "LOCKED",
     depth_score |-> 0, summary |-> <<>>, messages |-> <<>>]

RECURSIVE get_or_create_pillars(_, _)
get_or_create_pillars(ps, i) ==
    IF i > NumPillars THEN ps
    ELSE get_or_create_pillars(
             IF \E id \in DOMAIN ps : ps[id].slug = PILLAR_SLUGS[i] THEN ps
             ELSE Append(ps, NewPillar(i)),
             i + 1)

\* mutant of initialize_for_book: the nine rows are created on every call
initialize_always_create(ps) == ps \o [i \in 1..NumPillars |-> NewPillar(i)]

\* PositioningPillar.initialize_for_book
initialize_for_book(ps) == get_or_create_pillars(ps, 1)

\* mutant of unlock_next_pillar: every LOCKED pillar of higher order is unlocked
unlock_all_next_pillars(ps, id) ==
    IF ps[id].status # "COMPLETE" THEN ps
    ELSE [j \in DOMAIN ps |->
             IF ps[j].order > ps[id].order /\ ps[j].status = "LOCKED"
             THEN [ps[j] EXCEPT !.status = "ACTIVE"]
             ELSE ps[j]]

\* PositioningPillar.unlock_next_pillar of the pillar with primary key id
unlock_next_pillar(ps, id) ==
    LET locked == {j \in DOMAIN ps : ps[j].order > ps[id].order
                                     /\ ps[j].status = "LOCKED"}
        next_pillar == CHOOSE j \in locked :
                           \A k \in locked : <<ps[j].order, j>> = <<ps[k].order, k>>
                                             \/ ps[j].order < ps[k].order
                                             \/ (ps[j].order = ps[k].order /\ j < k)
    IN IF ps[id].status # "COMPLETE" \/ locked = {} THEN ps
       ELSE [ps EXCEPT ![next_pillar].status = "ACTIVE"]

\* mutant of user_messages: the assistant's messages are counted too
user_messages_all(log) == Len(log)

\* len([m for m in messages if m.role == "user"])
user_messages(log) == Cardinality({i \in DOMAIN log : log[i] = "user"})

\* mutant of reset_pillar: a COMPLETE pillar keeps its status
reset_pillar_keeps_complete(row) ==
    [row EXCEPT !.messages = <<>>, !.depth_score = 0, !.summary = <<>>,
                !.status = IF @ = "COMPLETE" THEN @ ELSE "ACTIVE"]

\* the assignments of pillar_reset to the pillar and its messages
reset_pillar(row) ==
    [row EXCEPT !.messages = <<>>, !.depth_score = 0, !.summary = <<>>,
                !.status = "ACTIVE"]

\* what evaluate_pillar_depth returns: <<depth_score, is_complete>>, <<0, FALSE>>
\* when the evaluation fails
EvalOutcomes == {<<0, FALSE>>} \cup ({59, 60, 80} \X BOOLEAN)
\* what the scoring service answers: <<>> when the call or the parsing of its
\* answer raises, else the depth_score and is_complete of the answer
EvalResults == {<<>>} \cup {<<e>> : e \in {59, 60, 80} \X BOOLEAN}

\* mutant of evaluate_pillar_depth: a failed evaluation keeps the pillar's score
evaluate_pillar_depth_keeps_score(pillar, result) ==
    IF result = <<>> THEN <<pillar.depth_score, FALSE>> ELSE result[1]

\* evaluate_pillar_depth: (depth_score, is_complete) of the answer, (0, False)
\* when the evaluation raises
evaluate_pillar_depth(pillar, result) ==
    IF result = <<>> THEN <<0, FALSE>> ELSE result[1]

\* what generate_pillar_summary returns: "" when the generation fails
Summaries == {"", "s"}
\* request.data.get("message", ""): absent, blank, or with a word
Messages == {<<>>, <<" ">>, <<"m", " ">>}

\* a pillar handler has answered and left the tables at ps, br, ch, ob
PillarStep(call, resp, ps, br, ch, ob) ==
    /\ opCall' = call
    /\ opResp' = resp
    /\ pillars' = ps
    /\ brief' = br
    /\ chapters' = ch
    /\ other_books' = ob
    /\ UNCHANGED <<collaborators, histVars, req, talking_points, collab_state,
                   ledgerVars, accessVars, collabVars, treeVars>>

PillarRefused(call, resp) == PillarStep(call, resp, pillars, brief, chapters, other_books)

\* the lookup of the pillar and of its book's owner
pillar_lookup(user, id) ==
    IF id \notin DOMAIN pillars THEN OpResp(404, "Pillar not found")
    ELSE IF BookOwner # user THEN OpResp(404, "Not found")
    ELSE NoOpResp

pillars_list_initialize_POST(user, book) ==
    LET call == [NoOpCall EXCEPT !.op = "pillars_list_initialize", !.user = user,
                                 !.book = book]
    IN IF book # "b1" \/ BookOwner # user
       THEN PillarRefused(call, OpResp(404, "Book not found"))
       ELSE PillarStep(call, OpResp(200, ""), initialize_for_book(pillars), brief,
                       chapters, other_books)

\* mutant of chat_refusal: a COMPLETE pillar is not refused
chat_refusal_admits_complete(pillar_status, message) ==
    IF pillar_status = "LOCKED"
    THEN OpResp(403, "This pillar is locked. Complete previous pillars first.")
    ELSE IF py_strip(message) = <<>> THEN OpResp(400, "message is required")
    ELSE NoOpResp

\* the checks of pillar_chat on the pillar's status and on the message
chat_refusal(pillar_status, message) ==
    IF pillar_status = "LOCKED"
    THEN OpResp(403, "This pillar is locked. Complete previous pillars first.")
    ELSE IF py_strip(message) = <<>> THEN OpResp(400, "message is required")
    ELSE IF pillar_status = "COMPLETE"
    THEN OpResp(400, "This pillar is already complete.")
    ELSE NoOpResp

\* mutant of chat_completes: the score alone completes the pillar
chat_completes_on_score(is_complete, eval_complete, depth_score) ==
    is_complete \/ depth_score >= 80

\* the completion test of pillar_chat
chat_completes(is_complete, eval_complete, depth_score) ==
    is_complete \/ (eval_complete /\ depth_score >= 80)

\* POST of pillar_chat; ai is <<>> when the OpenAI call fails, else
\* <<[marker, eval, summary]>>
pillar_chat_POST(user, id, message, ai) ==
    LET call == [NoOpCall EXCEPT !.op = "pillar_chat", !.user = user, !.id = id,
                                 !.text = <<message>>,
                                 !.ai = IF ai = <<>> THEN <<>>
                                        ELSE <<[marker |-> ai[1].marker,
                                                eval |-> ai[1].eval]>>]
        lookup == pillar_lookup(user, id)
        said == [pillars EXCEPT ![id].messages = Append(@, "user")]
        evaluation == evaluate_pillar_depth(said[id], ai[1].eval)
        depth_score == evaluation[1]
        eval_complete == evaluation[2]
        scored == [said EXCEPT ![id].depth_score = depth_score]
        completed == [scored EXCEPT ![id].status = "COMPLETE",
                                    ![id].summary = <<ai[1].summary>>]
        saved == IF chat_completes(ai[1].marker, eval_complete, depth_score)
                 THEN unlock_next_pillar(completed, id)
                 ELSE scored
    IN IF lookup # NoOpResp THEN PillarRefused(call, lookup)
       ELSE IF chat_refusal(pillars[id].status, message) # NoOpResp
       THEN PillarRefused(call, chat_refusal(pillars[id].status, message))
       ELSE /\ user_messages(pillars[id].messages) < MaxUserMessages
            /\ IF ai = <<>>
               THEN PillarStep(call, OpResp(502, ""), said, brief, chapters, other_books)
               ELSE PillarStep(call, OpResp(200, ""),
                               [saved EXCEPT ![id].messages = Append(@, "assistant")],
                               brief, chapters, other_books)

pillar_mark_complete(user, id, eval, summary) ==
    LET call == [NoOpCall EXCEPT !.op = "pillar_mark_complete", !.user = user,
                                 !.id = id, !.score = eval[1]]
        lookup == pillar_lookup(user, id)
        completed == [pillars EXCEPT ![id].status = "COMPLETE",
                                     ![id].depth_score = eval[1],
                                     ![id].summary = <<summary>>]
    IN IF lookup # NoOpResp THEN PillarRefused(call, lookup)
       ELSE IF pillars[id].status = "LOCKED"
       THEN PillarRefused(call, OpResp(400, "Cannot complete a locked pillar"))
       ELSE IF pillars[id].status = "COMPLETE"
       THEN PillarRefused(call, OpResp(400, "Pillar is already complete"))
       ELSE IF user_messages(pillars[id].messages) < 2
       THEN PillarRefused(call,
                OpResp(400, "Not enough conversation depth. Continue the discussion."))
       ELSE IF eval[1] < 60
       THEN PillarRefused(call, OpResp(400, "Needs at least 60% for manual completion."))
       ELSE PillarStep(call, OpResp(200, ""), unlock_next_pillar(completed, id), brief,
                       chapters, other_books)

get_positioning_brief(user, book) ==
    LET call == [NoOpCall EXCEPT !.op = "get_positioning_brief", !.user = user,
                                 !.book = book]
    IN IF book # "b1" \/ BookOwner # user
       THEN PillarRefused(call, OpResp(404, "Book not found"))
       ELSE IF \E id \in DOMAIN pillars : pillars[id].status # "COMPLETE"
       THEN PillarRefused(call,
                OpResp(400, "Cannot generate positioning brief until all pillars are complete"))
       ELSE PillarStep(call, OpResp(200, ""), pillars,
                       IF brief # <<>> THEN brief ELSE <<"brief">>, chapters,
                       other_books)

pillar_reset(user, id) ==
    LET lookup == pillar_lookup(user, id)
        call == [NoOpCall EXCEPT !.op = "pillar_reset", !.user = user, !.id = id,
                                 !.before = IF lookup # NoOpResp THEN <<>>
                                            ELSE <<[status |-> pillars[id].status,
                                                    brief |-> brief]>>]
    IN IF lookup # NoOpResp THEN PillarRefused(call, lookup)
       ELSE PillarStep(call, OpResp(200, ""),
                       [pillars EXCEPT ![id] = reset_pillar(@)], <<>>, chapters,
                       other_books)

\* request.data.get("answers"): absent, an empty list, a list of answers
OptAnswers == {<<>>, <<<<>>>>, <<<<"a">>>>}
OptBookIds == {<<>>} \cup {<<book>> : book \in BookIds}

\* mutant of outline_gate: the brief is not asked for
outline_gate_without_brief(ps, br, answers) ==
    IF ps # <<>>
    THEN (IF \E id \in DOMAIN ps : ps[id].status # "COMPLETE"
          THEN OpResp(400, "Cannot generate outline until all positioning pillars are complete")
          ELSE NoOpResp)
    ELSE IF answers = <<>> \/ answers[1] = <<>>
    THEN OpResp(400, "Either complete positioning pillars or provide answers")
    ELSE NoOpResp

\* the pillar check of createOutline for the caller's own book
outline_gate(ps, br, answers) ==
    IF ps # <<>>
    THEN (IF \E id \in DOMAIN ps : ps[id].status # "COMPLETE"
          THEN OpResp(400, "Cannot generate outline until all positioning pillars are complete")
          ELSE IF br = <<>>
          THEN OpResp(400, "Positioning brief not generated. Call the brief endpoint first.")
          ELSE NoOpResp)
    ELSE IF answers = <<>> \/ answers[1] = <<>>
    THEN OpResp(400, "Either complete positioning pillars or provide answers")
    ELSE NoOpResp

\* createOutline; ai_ok is whether the OpenAI call returns an outline
createOutline(user, book_id, force_legacy, answers, ai_ok) ==
    LET call == [NoOpCall EXCEPT !.op = "createOutline", !.user = user,
                                 !.book = IF book_id = <<>> THEN "" ELSE book_id[1],
                                 !.force_legacy = force_legacy, !.answers = answers]
        found == book_id = <<"b1">> /\ BookOwner = user
        gated == found /\ ~force_legacy
        gate == IF gated THEN outline_gate(pillars, brief, answers)
                ELSE IF answers = <<>> \/ answers[1] = <<>>
                THEN OpResp(400, "answers must be a non-empty list")
                ELSE NoOpResp
        from_brief == gated /\ pillars # <<>>
    IN IF gate # NoOpResp THEN PillarRefused(call, gate)
       ELSE IF ~ai_ok THEN PillarRefused(call, OpResp(502, ""))
       ELSE IF answers = <<>>
       THEN PillarRefused(call, OpResp(500, "'NoneType' object is not iterable"))
       ELSE IF found
       THEN PillarStep(call, OpResp(201, ""), pillars, brief,
                       <<IF from_brief THEN "outline of the brief"
                         ELSE "outline of the answers">>,
                       other_books)
       ELSE /\ other_books < MaxOtherBooks
            /\ PillarStep(call, OpResp(201, ""), pillars, brief, chapters,
                          other_books + 1)

\* ---- SpecPillars: a new book ----
PillarUsers == [u1 |-> "editor", u2 |-> NoRole]

InitPillars ==
    /\ collaborators = PillarUsers
    /\ InitTables
    /\ pillars = <<>>

ChatOutcomes ==
    {<<>>} \cup {<<[marker |-> marker, eval |-> eval, summary |-> summary]>> :
                    marker \in BOOLEAN, eval \in EvalResults, summary \in Summaries}

\* the chat request reaches the OpenAI call
ChatAdmitted(user, id, message) ==
    /\ pillar_lookup(user, id) = NoOpResp
    /\ pillars[id].status = "ACTIVE"
    /\ py_strip(message) # <<>>

\* the completion request reaches the evaluation
CompletionAdmitted(user, id) ==
    /\ pillar_lookup(user, id) = NoOpResp
    /\ pillars[id].status = "ACTIVE"
    /\ user_messages(pillars[id].messages) >= 2

InitializePillars ==
    \E user \in Users, book \in BookIds : pillars_list_initialize_POST(user, book)

PillarChat(ids) ==
    \E user \in Users, id \in ids \cup {MissingPillarId}, message \in Messages :
        \E ai \in (IF ChatAdmitted(user, id, message) THEN ChatOutcomes ELSE {<<>>}) :
            pillar_chat_POST(user, id, message, ai)

\* the evaluation is not called for a request refused before it, which is
\* modelled with every score it might have returned
PillarMarkComplete(ids) ==
    \E user \in Users, id \in ids \cup {MissingPillarId}, eval \in EvalOutcomes :
        \E summary \in (IF CompletionAdmitted(user, id) /\ eval[1] >= 60
                        THEN Summaries ELSE {"s"}) :
            pillar_mark_complete(user, id, eval, summary)

PillarReset(ids) ==
    \E user \in Users, id \in ids \cup {MissingPillarId} : pillar_reset(user, id)

ChatPillar == PillarChat(1..MaxChatPillar)
CompletePillar == PillarMarkComplete(1..MaxChatPillar)
ResetPillar == PillarReset(1..MaxResetPillar)

NextPillars == InitializePillars \/ ChatPillar \/ CompletePillar \/ ResetPillar

SpecPillars == InitPillars /\ [][NextPillars]_vars

\* ---- SpecOutline: a book whose first pillars are complete ----
\* a pillar completed in a chat of two messages
CompletedPillar(i) ==
    [NewPillar(i) EXCEPT !.status = "COMPLETE", !.depth_score = 80,
                         !.summary = <<"s">>,
                         !.messages = <<"user", "assistant", "user", "assistant">>]

OutlinePillarIds == (NumPillars - MaxOutlinePillars + 1)..NumPillars

InitOutline ==
    /\ collaborators = PillarUsers
    /\ InitTables
    /\ pillars = [i \in 1..NumPillars |->
                     IF i \in OutlinePillarIds
                     THEN [NewPillar(i) EXCEPT !.status =
                              IF i = NumPillars - MaxOutlinePillars + 1 THEN "ACTIVE"
                              ELSE "LOCKED"]
                     ELSE CompletedPillar(i)]

ChatLastPillars == PillarChat(OutlinePillarIds)
CompleteLastPillars == PillarMarkComplete(OutlinePillarIds)
ResetLastPillars == PillarReset(OutlinePillarIds)

GetPositioningBrief ==
    \E user \in Users, book \in BookIds : get_positioning_brief(user, book)

CreateOutline ==
    \E user \in Users, book_id \in OptBookIds, force_legacy \in BOOLEAN,
       answers \in OptAnswers, ai_ok \in BOOLEAN :
        createOutline(user, book_id, force_legacy, answers, ai_ok)

NextOutline ==
    InitializePillars \/ ChatLastPillars \/ CompleteLastPillars \/ ResetLastPillars
        \/ GetPositioningBrief \/ CreateOutline

SpecOutline == InitOutline /\ [][NextOutline]_vars

\* ---- claims C21 to C23 ----
\* the BookCollaborator row of the caller has one of the given roles
CallerRowIn(call, roles) ==
    /\ call.user # BookOwner
    /\ \E row \in collab_rows : row.user = call.user /\ row.role \in roles

CallerHasRow(call) == CallerRowIn(call, Roles)

\* the request names a talking point or a comment that exists
TargetExists(call) ==
    IF call.op \in {"comment_detail_PUT", "comment_detail_DELETE"}
    THEN CommentExists(call.id)
    ELSE call.tp # <<>> /\ call.tp[1] \in talking_points

AccessUnchanged ==
    UNCHANGED <<talking_points, tp_rows, collab_state, changes, comments,
                next_comment_id>>

\* C21: no operation invoked by a commenter-role or viewer-role collaborator
\* changes or deletes a talking point (its text, order, content or existence).
C21_OnlyEditorsChangeTalkingPoints ==
    [][CallerRowIn(opCall', {"commenter", "viewer"})
          => UNCHANGED <<talking_points, tp_rows>>]_vars

\* C22: a mutating operation on an existing talking point or comment answers
\* 404 to a caller without any access to the book and 403 to a caller who has
\* access but lacks the role the operation needs; both change nothing.
C22_NotFoundWithoutAccess ==
    [][/\ (TargetExists(opCall') /\ opCall'.user # BookOwner /\ ~CallerHasRow(opCall'))
            => (opResp'.status = 404 /\ AccessUnchanged)
       /\ opResp'.status = 403
            => (opCall'.user # BookOwner /\ CallerHasRow(opCall') /\ AccessUnchanged)]_vars

\* C23: access is owner or any collaborator row, edit is owner or editor row,
\* comment is owner or editor or commenter row; a comment create by a viewer is
\* refused and creates no comment.
C23_RolePredicates ==
    [][/\ \A u \in Users :
            /\ user_has_book_access(u)
                 <=> (u = BookOwner \/ \E row \in collab_rows : row.user = u)
            /\ user_can_edit_book(u)
                 <=> (u = BookOwner
                      \/ \E row \in collab_rows : row.user = u /\ row.role = "editor")
            /\ user_can_comment_book(u)
                 <=> (u = BookOwner
                      \/ \E row \in collab_rows :
                            row.user = u /\ row.role \in {"editor", "commenter"})
       /\ (opCall'.op = "comments_list_create" /\ TargetExists(opCall')
           /\ CallerRowIn(opCall', {"viewer"}))
            => (opResp'.status = 403 /\ UNCHANGED <<comments, next_comment_id>>)]_vars

\* a viewer has been refused a comment, and a commenter has one stored
C23_Witness ==
    /\ opCall.op = "comments_list_create"
    /\ CallerRowIn(opCall, {"viewer"})
    /\ opResp = OpResp(403, "Viewers cannot add comments")
    /\ \E id \in CommentIds :
          /\ comments[id] # <<>>
          /\ role_of(comments[id][1].user) = "commenter"

\* ---- claim C24 ----
\* the user an invitation names
InvitedUser(call) == UserByEmail(py_strip(call.email))[1]

\* C24: a book has at most one collaborator row per user; inviting a user who
\* is already a collaborator creates no second row and sets the role to the
\* requested one; removal deletes the row and the user has no access any more.
C24_OneRowPerUser ==
    [][/\ \A u \in Users : Cardinality({row \in collab_rows' : row.user = u}) <= 1
       /\ (opCall'.op = "book_collaborators" /\ opResp'.status \in {200, 201})
            => /\ \E row \in collab_rows' :
                     /\ row.user = InvitedUser(opCall')
                     /\ row.role = (IF opCall'.role = <<>> THEN "commenter"
                                    ELSE opCall'.role[1])
               /\ (\E row \in collab_rows : row.user = InvitedUser(opCall'))
                     => /\ Cardinality(collab_rows') = Cardinality(collab_rows)
                        /\ opResp'.status = 200
       /\ (opCall'.op = "remove_collaborator" /\ opResp'.status = 204)
            => \A row \in collab_rows :
                  row.id = opCall'.id
                     => /\ row \notin collab_rows'
                        /\ collaborators'[row.user] = NoRole
                        /\ ~\E other \in collab_rows' : other.user = row.user]_vars

\* a collaborator has been invited again, after a later collaborator came in
C24_Witness ==
    /\ opCall.op = "book_collaborators"
    /\ opResp.status = 200
    /\ \E row \in collab_rows :
          /\ row.user = InvitedUser(opCall)
          /\ row.role = "editor"
          /\ \E other \in collab_rows : other.id > row.id

\* ---- claims C25 to C30 ----
\* the step completes pillar k
Completes(k) ==
    /\ k \in DOMAIN pillars'
    /\ pillars[k].status # "COMPLETE"
    /\ pillars'[k].status = "COMPLETE"

UserTurns(log) == Len(SelectSeq(log, LAMBDA m : m = "user"))

\* C25: completing pillar k changes at most one other pillar, which is pillar
\* k+1 going from LOCKED to ACTIVE; no pillar k+2 or later is changed.
C25_CompletionUnlocksNextOnly ==
    [][\A k \in DOMAIN pillars :
          Completes(k)
             => \A j \in DOMAIN pillars \ {k} :
                   pillars'[j] # pillars[j]
                      => /\ pillars[j].order = pillars[k].order + 1
                         /\ pillars[j].status = "LOCKED"
                         /\ pillars'[j] = [pillars[j] EXCEPT !.status = "ACTIVE"]]_vars

\* C26: a pillar leaves LOCKED only for ACTIVE and only in the step in which
\* the pillar immediately before it becomes COMPLETE.
C26_StrictLinearUnlock ==
    [][\A j \in DOMAIN pillars :
          (j \in DOMAIN pillars' /\ pillars[j].status = "LOCKED"
           /\ pillars'[j].status # "LOCKED")
             => /\ pillars'[j].status = "ACTIVE"
                /\ \E k \in DOMAIN pillars :
                      pillars[k].order + 1 = pillars[j].order /\ Completes(k)]_vars

\* C27: after an initialize call the book has exactly 9 pillars with orders 1
\* to 9; on a new book pillar 1 is ACTIVE and pillars 2 to 9 are LOCKED; on a
\* book that has its pillars the call changes no pillar.
C27_InitializeIdempotent ==
    [][(opCall'.op = "pillars_list_initialize" /\ opResp'.status = 200)
          => /\ Len(pillars') = 9
             /\ \A i \in 1..9 : /\ pillars'[i].order = i
                                /\ pillars'[i].slug = PILLAR_SLUGS[i]
             /\ pillars = <<>>
                   => \A i \in 1..9 :
                         /\ pillars'[i].status = (IF i = 1 THEN "ACTIVE" ELSE "LOCKED")
                         /\ pillars'[i].depth_score = 0
                         /\ pillars'[i].messages = <<>>
             /\ pillars # <<>> => pillars' = pillars]_vars

\* initialize has been called on a book with a completed and a reset pillar
C27_Witness ==
    /\ opCall.op = "pillars_list_initialize"
    /\ opResp.status = 200
    /\ Len(pillars) = 9
    /\ pillars[1].status = "COMPLETE" /\ pillars[1].messages # <<>>
    /\ pillars[2].status = "ACTIVE"
    /\ pillars[3].status = "LOCKED"

\* C28: manual completion of an ACTIVE pillar with fewer than 2 user messages
\* is refused whatever the depth score and changes nothing; with at least 2
\* user messages the pillar is completed exactly when the score is at least 60.
C28_ManualCompletionNeedsDepth ==
    [][(/\ opCall'.op = "pillar_mark_complete"
        /\ opCall'.user = BookOwner
        /\ opCall'.id \in DOMAIN pillars
        /\ pillars[opCall'.id].status = "ACTIVE")
          => /\ UserTurns(pillars[opCall'.id].messages) < 2
                   => (opResp'.status = 400 /\ pillars' = pillars)
             /\ UserTurns(pillars[opCall'.id].messages) >= 2
                   => /\ pillars'[opCall'.id].status = "COMPLETE" <=> opCall'.score >= 60
                      /\ opCall'.score < 60 => (opResp'.status = 400 /\ pillars' = pillars)
                      /\ opCall'.score >= 60
                            => /\ opResp'.status = 200
                               /\ pillars'[opCall'.id].depth_score = opCall'.score]_vars

\* a completion with score 80 has been refused for a log of one user message
\* and the assistant's answer
C28_Witness ==
    /\ opCall.op = "pillar_mark_complete"
    /\ opCall.score = 80
    /\ opResp = OpResp(400, "Not enough conversation depth. Continue the discussion.")
    /\ pillars[opCall.id].status = "ACTIVE"
    /\ pillars[opCall.id].messages = <<"user", "assistant">>

OutlineOfOwnBook(call) ==
    call.op = "createOutline" /\ call.book = "b1" /\ pillars # <<>>

SomePillarIncomplete == \E id \in DOMAIN pillars : pillars[id].status # "COMPLETE"

IncompleteRefusal ==
    OpResp(400, "Cannot generate outline until all positioning pillars are complete")

C30_ResetRestarts ==
    [][(/\ opCall'.op = "pillar_reset"
        /\ opCall'.user = BookOwner
        /\ opCall'.id \in DOMAIN pillars)
          => /\ opResp'.status = 200
             /\ pillars'[opCall'.id].messages = <<>>
             /\ pillars'[opCall'.id].depth_score = 0
             /\ pillars'[opCall'.id].status = "ACTIVE"
             /\ \A j \in DOMAIN pillars \ {opCall'.id} : pillars'[j] = pillars[j]
             /\ brief' = <<>>]_vars

\* a COMPLETE pillar of a book with a brief has been reset
C30_Witness ==
    /\ opCall.op = "pillar_reset"
    /\ opResp.status = 200
    /\ opCall.before # <<>>
    /\ opCall.before[1].status = "COMPLETE"
    /\ opCall.before[1].brief # <<>>
    /\ pillars[opCall.id].status = "ACTIVE"
    /\ brief = <<>>

\* ---- claim C39 ----
\* C39: a suggestion with status approved has approved_by and approved_at set,
\* and a suggestion with status pending or rejected has both empty.
C39_StampsMatchStatus ==
    \A id \in ChangeIds :
        changes[id] # <<>>
           => LET row == changes[id][1]
              IN IF row.status = "approved"
                 THEN row.approved_by # <<>> /\ row.approved_at # <<>>
                 ELSE row.approved_by = <<>> /\ row.approved_at = <<>>

\* ---- SpecShared: the live step log of a shared book ----
\* the book is shared with one user who may read or comment, not edit
InitShared ==
    /\ collaborators \in {[u \in Users \ {BookOwner} |->
                               IF u = "u1" THEN role ELSE NoRole] :
                              role \in {"viewer", "commenter"}}
    /\ InitTables
    /\ pillars = <<>>

SpecShared == InitShared /\ [][Next]_vars

\* ---- claim C40 ----
\* C40: a ReceiveSteps call issued by a viewer-role or commenter-role
\* collaborator leaves version, step log and client-id log unchanged.
C40_OnlyEditorsGrowTheLog ==
    [][(lastCall'.op = "POST" /\ lastCall'.tp \in talking_points
        /\ role_of(lastCall'.user) \in {"viewer", "commenter"})
          => StateIn(collab_state', lastCall'.tp) = StateIn(collab_state, lastCall'.tp)]_vars


\* ---- claims C34 to C38: the chat turn and the ACTIVE pillars ----
ActiveCount(ps) == Cardinality({id \in DOMAIN ps : ps[id].status = "ACTIVE"})

\* C38 as stated: of the pillars of an initialized book at most one is ACTIVE
C38_AtMostOneActive == pillars # <<>> => ActiveCount(pillars) <= 1

\* C38: no operation other than a reset raises the number of ACTIVE pillars
\* above one
C38_OnlyResetAddsActive ==
    [][opCall'.op # "pillar_reset"
         => (ActiveCount(pillars') <= ActiveCount(pillars)
             \/ ActiveCount(pillars') <= 1)]_vars

\* a completion has unlocked the next pillar and one pillar is ACTIVE
C38_Witness ==
    /\ opCall.op \in {"pillar_chat", "pillar_mark_complete"}
    /\ opResp.status = 200
    /\ pillars # <<>>
    /\ pillars[1].status = "COMPLETE"
    /\ pillars[2].status = "ACTIVE"
    /\ ActiveCount(pillars) = 1

\* the step is a chat call of the owner to an ACTIVE pillar
ChatOfActive ==
    /\ opCall'.op = "pillar_chat"
    /\ opCall'.user = BookOwner
    /\ opCall'.id \in DOMAIN pillars
    /\ pillars[opCall'.id].status = "ACTIVE"

\* the response of the step's chat call carries the completion marker
ChatMarker == opCall'.ai # <<>> /\ opCall'.ai[1].marker

\* the evaluation of the step's chat call answered, and judged the pillar complete
ChatEvalComplete ==
    /\ opCall'.ai # <<>>
    /\ opCall'.ai[1].eval # <<>>
    /\ opCall'.ai[1].eval[1][2]

\* only the depth score and the message log of the pillar differ after the step
OnlyScoreAndLogChange(id) ==
    /\ pillars'[id].status = "ACTIVE"
    /\ pillars' = [pillars EXCEPT ![id].depth_score = pillars'[id].depth_score,
                                  ![id].messages = pillars'[id].messages]
    /\ UNCHANGED <<brief, chapters, other_books>>

\* C34 as stated: the chat turn completes the pillar exactly when the response
\* carries the marker or the depth score is at least 80
C34_CompleteOnMarkerOrScore ==
    [][ChatOfActive
         => IF ChatMarker \/ pillars'[opCall'.id].depth_score >= 80
            THEN pillars'[opCall'.id].status = "COMPLETE"
            ELSE OnlyScoreAndLogChange(opCall'.id)]_vars

\* C34: the chat turn completes the pillar exactly when the response carries the
\* marker, or the evaluation judges the pillar complete with a depth score of at
\* least 80; otherwise the pillar stays ACTIVE and only its depth score and
\* message log change
C34_CompleteOnMarkerOrEvaluation ==
    [][ChatOfActive
         => IF ChatMarker
               \/ (ChatEvalComplete /\ pillars'[opCall'.id].depth_score >= 80)
            THEN pillars'[opCall'.id].status = "COMPLETE"
            ELSE OnlyScoreAndLogChange(opCall'.id)]_vars

\* a chat turn without marker has completed the pillar by evaluation
C34_Witness ==
    /\ opCall.op = "pillar_chat"
    /\ opCall.ai = <<[marker |-> FALSE, eval |-> <<<<80, TRUE>>>>]>>
    /\ pillars[opCall.id].status = "COMPLETE"
    /\ pillars[opCall.id].depth_score = 80

\* C36: when the evaluation fails in a chat turn, the turn is answered, the user
\* message and the assistant reply are recorded and the depth score is 0
C36_FailedEvaluationScoresZero ==
    [][(ChatOfActive /\ opCall'.ai # <<>> /\ opCall'.ai[1].eval = <<>>)
         => /\ opResp'.status = 200
            /\ pillars'[opCall'.id].messages
                  = pillars[opCall'.id].messages \o <<"user", "assistant">>
            /\ pillars'[opCall'.id].depth_score = 0]_vars

\* the second turn of a chat was answered although its evaluation failed
C36_Witness ==
    /\ opCall.op = "pillar_chat"
    /\ opCall.ai # <<>>
    /\ opCall.ai[1].eval = <<>>
    /\ ~opCall.ai[1].marker
    /\ opResp.status = 200
    /\ pillars[opCall.id].messages = <<"user", "assistant", "user", "assistant">>
    /\ pillars[opCall.id].depth_score = 0
    /\ pillars[opCall.id].status = "ACTIVE"

\* C37: a chat turn whose text-generation call fails leaves the pillar's message
\* log, depth score and status as they were
C37_FailedTurnChangesNothing ==
    [][(opCall'.op = "pillar_chat" /\ opResp'.status = 502) => pillars' = pillars]_vars


\* ---- SpecGuide: a new book, its pillars and its brief ----
\* chat requests to the first pillars while they are not ACTIVE
ChatIdlePillar ==
    \E user \in Users, id \in 1..MaxIdleChatPillar, message \in Messages :
        /\ id \in DOMAIN pillars
        /\ pillars[id].status # "ACTIVE"
        /\ pillar_chat_POST(user, id, message, <<>>)

NextGuide ==
    InitializePillars \/ ChatPillar \/ ChatIdlePillar \/ CompletePillar
        \/ ResetPillar \/ GetPositioningBrief

SpecGuide == InitPillars /\ [][NextGuide]_vars

\* ---- claim C31 ----
\* C31: a positioning brief exists for a book only if the book has all 9 pillars
\* and every one of them is COMPLETE
C31_BriefOnlyWhenAllComplete ==
    brief # <<>>
       => /\ Len(pillars) = NumPillars
          /\ \A id \in DOMAIN pillars : pillars[id].status = "COMPLETE"

\* ---- claim C35 ----
\* C35: a chat message sent to a LOCKED or to a COMPLETE pillar is rejected, and
\* no pillar's message log, depth score or status changes
C35_IdlePillarRefusesChat ==
    [][(/\ opCall'.op = "pillar_chat"
        /\ opCall'.user = BookOwner
        /\ opCall'.id \in DOMAIN pillars
        /\ pillars[opCall'.id].status \in {"LOCKED", "COMPLETE"})
         => /\ opResp'.status = IF pillars[opCall'.id].status = "LOCKED" THEN 403
                                ELSE 400
            /\ UNCHANGED <<pillars, brief>>]_vars

\* a message with a word was sent to a COMPLETE pillar and refused
C35_Witness ==
    /\ opCall.op = "pillar_chat"
    /\ opCall.user = BookOwner
    /\ opCall.text = <<<<"m", " ">>>>
    /\ opCall.id \in DOMAIN pillars
    /\ pillars[opCall.id].status = "COMPLETE"
    /\ opResp = OpResp(400, "This pillar is already complete.")


\* ---- the document tree: chapters, sections and talking points ----
\* rows the create handlers of SpecTree create in all
MaxTreeCreated == 1
\* the primary keys the update and delete requests for chapters and sections name
MaxTreeUpdated == 1
MaxTreeDeleted == 2
\* a primary key no Chapter and no Section row has
MissingTreeId == 0
\* the primary keys of the rows of the tree of SpecTree
InitTreeIds == {1, 2}
TalkingPointName == <<"tp1", "tp2", "tp3", "tp4", "tp5", "tp6", "tp7", "tp8">>

\* request.data.get("title", ""): absent, blank, or with a word
Titles == {<<>>, <<" ">>, <<"n", " ">>}

\* title.strip() or the default title
title_or(title, default) == IF py_strip(title) # <<>> THEN py_strip(title) ELSE default

\* the assignments of update_chapter and update_section
updated_title_order(row, title, order) ==
    [row EXCEPT !.title = IF title = <<>> THEN @ ELSE title_or(title[1], @),
                !.order = IF order = <<>> THEN @ ELSE order[1]]

sections_of(se, c) == {s \in DOMAIN se : se[s].chapter = c}
talking_points_of(parent, ss) == {tp \in DOMAIN parent : parent[tp] \in ss}

\* mutant of cascade_delete: the rows that reference a deleted talking point stay
cascade_keep(table, gone) == table

\* on_delete=CASCADE of the talking_point key of Comment and ContentChange
cascade_delete(table, gone) ==
    [id \in DOMAIN table |->
        IF table[id] # <<>> /\ table[id][1].talking_point \in gone THEN <<>>
        ELSE table[id]]

\* a handler of the tree has answered with the body data
TreeStep(call, resp, data) ==
    /\ opCall' = call
    /\ opResp' = resp
    /\ opData' = data
    /\ UNCHANGED <<collaborators, histVars, req, next_change_id, ledgerCall,
                   ledgerResp, next_comment_id, collabVars, pillarVars>>

TreeRefused(call, resp) ==
    /\ TreeStep(call, resp, <<>>)
    /\ UNCHANGED <<chapter_rows, section_rows, tp_section, next_tree_id,
                   talking_points, tp_rows, collab_state, changes, comments>>

\* the talking points gone are deleted with the rows that reference them
delete_talking_points(gone) ==
    /\ talking_points' = talking_points \ gone
    /\ tp_rows' = [t \in talking_points \ gone |-> tp_rows[t]]
    /\ tp_section' = [t \in talking_points \ gone |-> tp_section[t]]
    /\ collab_state' = [t \in talking_points \ gone |-> collab_state[t]]
    /\ changes' = cascade_delete(changes, gone)
    /\ comments' = cascade_delete(comments, gone)

\* a chapter or section handler has saved the tables ch and se, deleted the
\* talking points gone, and answered with the serialized book
TreeSaved(call, status, ch, se, next, gone) ==
    /\ chapter_rows' = ch
    /\ section_rows' = se
    /\ next_tree_id' = next
    /\ delete_talking_points(gone)
    /\ TreeStep(call, OpResp(status, ""),
                <<_serialized_book(call.user, ch, se, tp_section', tp_rows')>>)

\* Chapter.objects.get(pk=chapter_id, book__user=request.user)
chapter_found(user, id) == id \in DOMAIN chapter_rows /\ BookOwner = user
\* Section.objects.get(pk=section_id, chapter__book__user=request.user)
section_found(user, id) == id \in DOMAIN section_rows /\ BookOwner = user

create_chapter(user, book, title, order) ==
    LET call == [NoOpCall EXCEPT !.op = "create_chapter", !.user = user,
                                 !.book = book]
        id == next_tree_id.chapter
        row == [title |-> title_or(title, <<"Untitled Chapter">>),
                order |-> IF order = <<>> THEN Cardinality(DOMAIN chapter_rows) + 1
                          ELSE order[1]]
    IN IF book # "b1" \/ BookOwner # user
       THEN TreeRefused(call, OpResp(404, "Book not found"))
       ELSE TreeSaved(call, 201,
                [c \in DOMAIN chapter_rows \cup {id} |->
                    IF c = id THEN row ELSE chapter_rows[c]],
                section_rows, [next_tree_id EXCEPT !.chapter = @ + 1], {})

update_chapter(user, id, title, order) ==
    LET call == [NoOpCall EXCEPT !.op = "update_chapter", !.user = user, !.id = id]
    IN IF ~chapter_found(user, id)
       THEN TreeRefused(call, OpResp(404, "Chapter not found"))
       ELSE TreeSaved(call, 200,
                [chapter_rows EXCEPT ![id] = updated_title_order(@, title, order)],
                section_rows, next_tree_id, {})

\* chapter.delete(): its sections and their talking points go with it
delete_chapter(user, id) ==
    LET call == [NoOpCall EXCEPT !.op = "delete_chapter", !.user = user, !.id = id]
        ss == sections_of(section_rows, id)
    IN IF ~chapter_found(user, id)
       THEN TreeRefused(call, OpResp(404, "Chapter not found"))
       ELSE TreeSaved(call, 200,
                [c \in DOMAIN chapter_rows \ {id} |-> chapter_rows[c]],
                [s \in DOMAIN section_rows \ ss |-> section_rows[s]],
                next_tree_id, talking_points_of(tp_section, ss))

create_section(user, chapter, title, order) ==
    LET call == [NoOpCall EXCEPT !.op = "create_section", !.user = user,
                                 !.id = chapter]
        id == next_tree_id.section
        row == [chapter |-> chapter,
                title |-> title_or(title, <<"Untitled Section">>),
                order |-> IF order = <<>>
                          THEN Cardinality(sections_of(section_rows, chapter)) + 1
                          ELSE order[1]]
    IN IF ~chapter_found(user, chapter)
       THEN TreeRefused(call, OpResp(404, "Chapter not found"))
       ELSE TreeSaved(call, 201, chapter_rows,
                [s \in DOMAIN section_rows \cup {id} |->
                    IF s = id THEN row ELSE section_rows[s]],
                [next_tree_id EXCEPT !.section = @ + 1], {})

update_section(user, id, title, order) ==
    LET call == [NoOpCall EXCEPT !.op = "update_section", !.user = user, !.id = id]
    IN IF ~section_found(user, id)
       THEN TreeRefused(call, OpResp(404, "Section not found"))
       ELSE TreeSaved(call, 200, chapter_rows,
                [section_rows EXCEPT ![id] = updated_title_order(@, title, order)],
                next_tree_id, {})

\* section.delete(): its talking points go with it
delete_section(user, id) ==
    LET call == [NoOpCall EXCEPT !.op = "delete_section", !.user = user, !.id = id]
    IN IF ~section_found(user, id)
       THEN TreeRefused(call, OpResp(404, "Section not found"))
       ELSE TreeSaved(call, 200, chapter_rows,
                [s \in DOMAIN section_rows \ {id} |-> section_rows[s]],
                next_tree_id, talking_points_of(tp_section, {id}))

create_talking_point(user, section, text, order) ==
    LET call == [NoOpCall EXCEPT !.op = "create_talking_point", !.user = user,
                                 !.id = section]
        tp == TalkingPointName[next_tree_id.talking_point]
        row == [text |-> title_or(text, <<"New talking point">>),
                order |-> IF order = <<>>
                          THEN Cardinality(talking_points_of(tp_section, {section})) + 1
                          ELSE order[1],
                content |-> <<>>]
    IN IF ~section_found(user, section)
       THEN TreeRefused(call, OpResp(404, "Section not found"))
       ELSE /\ talking_points' = talking_points \cup {tp}
            /\ tp_rows' = [t \in talking_points \cup {tp} |->
                              IF t = tp THEN row ELSE tp_rows[t]]
            /\ tp_section' = [t \in talking_points \cup {tp} |->
                                 IF t = tp THEN section ELSE tp_section[t]]
            /\ collab_state' = [t \in talking_points \cup {tp} |->
                                   IF t = tp THEN <<>> ELSE collab_state[t]]
            /\ next_tree_id' = [next_tree_id EXCEPT !.talking_point = @ + 1]
            /\ UNCHANGED <<chapter_rows, section_rows, changes, comments>>
            /\ TreeStep(call, OpResp(201, ""),
                        <<_serialized_book(user, chapter_rows, section_rows,
                                           tp_section', tp_rows')>>)

\* ---- SpecTree: a book with two chapters ----
\* the rows that reference a talking point: a comment and a suggestion, each on
\* either talking point, and the step log of both
InitTree ==
    /\ collaborators = PillarUsers
    /\ chapter_rows = [c \in InitTreeIds |-> ChapterRow]
    /\ section_rows = [s \in InitTreeIds |-> SectionRow(s)]
    /\ talking_points = {TalkingPointName[i] : i \in InitTreeIds}
    /\ tp_section = [tp \in talking_points |->
                        CHOOSE i \in InitTreeIds : TalkingPointName[i] = tp]
    /\ tp_rows = [tp \in talking_points |-> TalkingPointRow]
    /\ next_tree_id = [chapter |-> Cardinality(InitTreeIds) + 1,
                       section |-> Cardinality(InitTreeIds) + 1,
                       talking_point |-> Cardinality(InitTreeIds) + 1]
    /\ collab_state = [tp \in talking_points |->
                          <<[version |-> 1, steps |-> json_dumps(<<"x">>),
                             step_client_ids |-> json_dumps(<<"cA">>)]>>]
    /\ \E tp \in talking_points :
           comments = [id \in CommentIds |->
                          <<[talking_point |-> tp, user |-> BookOwner,
                             text |-> <<"n">>, comment_type |-> "user",
                             parent |-> <<>>]>>]
    /\ next_comment_id = MaxComments + 1
    /\ \E tp \in talking_points :
           changes = [id \in ChangeIds |->
                         <<[talking_point |-> tp, user |-> "u1",
                            step_json |-> <<"x">>, comment |-> "",
                            status |-> "pending", approved_by |-> <<>>,
                            approved_at |-> <<>>]>>]
    /\ next_change_id = MaxChanges + 1
    /\ lastCall = NoCall
    /\ lastResp = NoResp
    /\ accepted = <<>>
    /\ pendingConflict = <<>>
    /\ resubmit = FALSE
    /\ req = [p \in Procs |-> IdleReq]
    /\ ledgerCall = NoLedgerCall
    /\ ledgerResp = NoLedgerResp
    /\ collab_rows = RowsOf(collaborators)
    /\ next_collaborator_id = Cardinality(collab_rows) + 1
    /\ pillars = <<>>
    /\ brief = <<>>
    /\ chapters = <<"ch1">>
    /\ other_books = 0
    /\ opCall = NoOpCall
    /\ opResp = NoOpResp
    /\ opData = <<>>

\* the rows the create handlers have created
TreeCreated ==
    (next_tree_id.chapter + next_tree_id.section + next_tree_id.talking_point)
        - 3 * (Cardinality(InitTreeIds) + 1)

\* the payloads of the create and of the update requests
TreeCreatePayloads == {<<<<>>, <<>>>>, <<<<"n", " ">>, <<2>>>>}
TreeUpdatePayloads == {<<<<>>, <<>>>>, <<<<<<" ">>>>, <<>>>>, <<<<<<" ", "n">>>>, <<2>>>>}

CreateChapter ==
    \E user \in Users, book \in BookIds, payload \in TreeCreatePayloads :
        /\ TreeCreated < MaxTreeCreated
        /\ create_chapter(user, book, payload[1], payload[2])

UpdateChapter ==
    \E user \in Users, id \in {MissingTreeId} \cup 1..MaxTreeUpdated,
       payload \in TreeUpdatePayloads :
        update_chapter(user, id, payload[1], payload[2])

DeleteChapter ==
    \E user \in Users, id \in {MissingTreeId} \cup 1..MaxTreeDeleted :
        delete_chapter(user, id)

CreateSection ==
    \E user \in Users, chapter \in {MissingTreeId} \cup 1..MaxTreeUpdated,
       payload \in TreeCreatePayloads :
        /\ TreeCreated < MaxTreeCreated
        /\ create_section(user, chapter, payload[1], payload[2])

UpdateSection ==
    \E user \in Users, id \in {MissingTreeId} \cup 1..MaxTreeUpdated,
       payload \in TreeUpdatePayloads :
        update_section(user, id, payload[1], payload[2])

DeleteSection ==
    \E user \in Users, id \in {MissingTreeId} \cup 1..MaxTreeDeleted :
        delete_section(user, id)

CreateTalkingPoint ==
    \E user \in Users, section \in {MissingTreeId} \cup 1..MaxTreeUpdated,
       payload \in TreeCreatePayloads :
        /\ TreeCreated < MaxTreeCreated
        /\ create_talking_point(user, section, payload[1], payload[2])

UpdateTreeTalkingPoint ==
    \E user \in Users, tp \in TalkingPointIds, payload \in TreeUpdatePayloads :
        update_talking_point(user, tp, payload[1], payload[2], <<>>)

NextTree ==
    CreateChapter \/ UpdateChapter \/ DeleteChapter \/ CreateSection
        \/ UpdateSection \/ DeleteSection \/ CreateTalkingPoint
        \/ UpdateTreeTalkingPoint \/ DeleteTalkingPoint

SpecTree == InitTree /\ [][NextTree]_vars


\* ---- claim C32 ----
\* the rows of the table that reference a talking point in tps
RowsOn(table, tps) ==
    {id \in DOMAIN table : table[id] # <<>> /\ table[id][1].talking_point \in tps}

\* C32: deleting a chapter removes its sections, their talking points and those
\* talking points' comments, content changes and collaboration state, and leaves
\* the rows under the other chapters unchanged
C32_DeleteChapterCascades ==
    [][(opCall'.op = "delete_chapter" /\ opResp'.status = 200)
         => LET c == opCall'.id
                ss == sections_of(section_rows, c)
                gone == talking_points_of(tp_section, ss)
                kept == talking_points \ gone
            IN /\ c \notin DOMAIN chapter_rows'
               /\ DOMAIN section_rows' = DOMAIN section_rows \ ss
               /\ talking_points' = kept
               /\ DOMAIN tp_rows' = kept
               /\ DOMAIN tp_section' = kept
               /\ DOMAIN collab_state' = kept
               /\ RowsOn(comments', gone) = {}
               /\ RowsOn(changes', gone) = {}
               /\ \A c2 \in DOMAIN chapter_rows \ {c} :
                      c2 \in DOMAIN chapter_rows' /\ chapter_rows'[c2] = chapter_rows[c2]
               /\ \A s \in DOMAIN section_rows \ ss : section_rows'[s] = section_rows[s]
               /\ \A tp \in kept : /\ tp_rows'[tp] = tp_rows[tp]
                                   /\ tp_section'[tp] = tp_section[tp]
                                   /\ collab_state'[tp] = collab_state[tp]
               /\ \A id \in RowsOn(comments, kept) : comments'[id] = comments[id]
               /\ \A id \in RowsOn(changes, kept) : changes'[id] = changes[id]]_vars

\* a chapter was deleted with a talking point that had a suggestion, while the
\* talking point of the other chapter keeps its comment and its step log
C32_Witness ==
    /\ opCall.op = "delete_chapter"
    /\ opResp.status = 200
    /\ DOMAIN chapter_rows # {}
    /\ \A id \in ChangeIds : changes[id] = <<>>
    /\ \E id \in CommentIds : comments[id] # <<>>
    /\ \E tp \in talking_points : collab_state[tp] # <<>>

\* ---- claim C33 ----
TreeOps ==
    {"create_chapter", "update_chapter", "delete_chapter", "create_section",
     "update_section", "delete_section", "create_talking_point",
     "update_talking_point", "delete_talking_point"}

\* C33: every mutation of the document tree that succeeds returns to its caller
\* the serialized book as the mutation left it
C33_MutationReturnsBook ==
    [][(opCall'.op \in TreeOps /\ opResp'.status \in {200, 201})
         => opData' = <<_serialized_book(BookOwner, chapter_rows', section_rows',
                                         tp_section', tp_rows')>>]_vars

====
